---- MODULE Spec2Model ----
(***************************************************************************)
(* strictjson: case-sensitive JSON decoding on top of encoding/json.       *)
(*                                                                         *)
(* The model follows src/unmarshal.go (the strict walker, the field map    *)
(* builder and the suggestion search), src/errors.go (the error values)    *)
(* and src/unnamed/part_000 (the Decoder and its options).                 *)
(*                                                                         *)
(* Representation.                                                         *)
(*   strings that the code inspects (JSON keys, field names, tags) are     *)
(*     sequences of one-character strings, so that strings.ToLower,        *)
(*     strings.Index and byte indexing are computed and not assumed;       *)
(*   reflect.Type is a type expression: [kind |-> "int"], ...,             *)
(*     [kind |-> "ptr", elem |-> t], [kind |-> "named", name |-> n] with   *)
(*     the declaration of n in types;                                      *)
(*   reflect.Value of an addressable variable is the value stored in it,   *)
(*     a record tagged by k; an operation that writes through the          *)
(*     reflect.Value returns the new stored value;                         *)
(*   json.RawMessage / []byte is the parsed tree of the bytes, tagged by   *)
(*     j; [j |-> "bad"] stands for bytes that are not valid JSON;          *)
(*   ranging over a Go map (unspecified order) is every order.             *)
(***************************************************************************)
EXTENDS Integers, Sequences, FiniteSets, TLC

VARIABLES decoder, fieldCache, call, targetType, types

vars == <<decoder, fieldCache, call, targetType, types>>

(***************************************************************************)
(* Bounds of the model.                                                    *)
(***************************************************************************)
\* Longest chain of nested "next" records in a generated document.
MaxChain == 8
\* Most elements of a generated JSON array / entries of a generated JSON map.
MaxElems == 2
\* Nesting of records in the other generated documents.
MaxDepth == 2

(***************************************************************************)
(* Strings.                                                                *)
(***************************************************************************)
Lowers == <<"a","b","c","d","e","f","g","h","i","j","k","l","m",
            "n","o","p","q","r","s","t","u","v","w","x","y","z">>
Uppers == <<"A","B","C","D","E","F","G","H","I","J","K","L","M",
            "N","O","P","Q","R","S","T","U","V","W","X","Y","Z">>

\* strings.ToLower on one byte (ASCII letters of the alphabet in use).
ToLowerChar(c) ==
    IF \E i \in DOMAIN Uppers : Uppers[i] = c
    THEN Lowers[CHOOSE i \in DOMAIN Uppers : Uppers[i] = c]
    ELSE c

ToUpperChar(c) ==
    IF \E i \in DOMAIN Lowers : Lowers[i] = c
    THEN Uppers[CHOOSE i \in DOMAIN Lowers : Lowers[i] = c]
    ELSE c

\* strings.ToLower
ToLower(s) == [i \in DOMAIN s |-> ToLowerChar(s[i])]

\* strings.Index(tag, ","): the 1-based position of the first comma, 0 if none.
IndexComma(tag) ==
    IF \E i \in DOMAIN tag : tag[i] = ","
    THEN CHOOSE i \in DOMAIN tag : tag[i] = "," /\ \A j \in 1..(i-1) : tag[j] # ","
    ELSE 0

\* parseTag returns (name, opts); only the name is used by its callers.
parseTag(tag) ==
    IF IndexComma(tag) # 0
    THEN [name |-> SubSeq(tag, 1, IndexComma(tag) - 1),
          opts |-> SubSeq(tag, IndexComma(tag) + 1, Len(tag))]
    ELSE [name |-> tag, opts |-> <<>>]

(***************************************************************************)
(* Types (reflect.Type).                                                   *)
(***************************************************************************)
IntT == [kind |-> "int"]
StringT == [kind |-> "string"]
AnyT == [kind |-> "interface"]
PtrTo(t) == [kind |-> "ptr", elem |-> t]
SliceOf(t) == [kind |-> "slice", elem |-> t]
ArrayOf(n, t) == [kind |-> "array", len |-> n, elem |-> t]
MapOf(kt, t) == [kind |-> "map", key |-> kt, elem |-> t]
Named(n) == [kind |-> "named", name |-> n]

\* A struct member: Go name, the json tag (<<>> when the member has no tag),
\* embedded or not, exported or not, and its type.
Field(name, tag, typ) ==
    [name |-> name, tag |-> tag, anonymous |-> FALSE, exported |-> TRUE, typ |-> typ]
Embedded(name, typ) ==
    [name |-> name, tag |-> <<>>, anonymous |-> TRUE, exported |-> TRUE, typ |-> typ]
Unexported(name, typ) ==
    [name |-> name, tag |-> <<>>, anonymous |-> FALSE, exported |-> FALSE, typ |-> typ]

\* A declared struct type; um says that *T has an UnmarshalJSON method.
Struct(fields) == [kind |-> "struct", fields |-> fields, um |-> FALSE]
CustomStruct(fields) == [kind |-> "struct", fields |-> fields, um |-> TRUE]
\* A declared type whose underlying type is not a struct.
Defined(t) == [kind |-> t.kind, under |-> t, um |-> FALSE]

kName == <<"n","a","m","e">>
kAge == <<"a","g","e">>
kCity == <<"c","i","t","y">>
kId == <<"i","d">>
kID == <<"I","D">>
kNext == <<"n","e","x","t">>
kExtra == <<"e","x","t">>
kAddress == <<"a","d","d","r">>
kList == <<"l","i","s","t">>
kItems == <<"m","a","p">>
kCells == <<"a","r","r">>
kDate == <<"d","a","t","e">>
kTags == <<"t","a","g","s">>
kCounts == <<"c","n","t">>
kVal == <<"v","a","l">>
kDash == <<"-">>
kGoName == <<"N","a","m","e">>
kGoSecret == <<"S","e","c","r","e","t">>
kOmit == <<"a","g","e",",","o","m","i","t","e","m","p","t","y">>

\* The record types the decoder is exercised on (after the types of
\* src/unmarshal_test.go); a type name maps to its declaration. The program
\* holds in types the declarations its target's type needs; they never change.
Decl ==
    [n \in {"Person", "Address", "Resident", "Tenant", "Group", "Dict", "Grid",
            "Time", "CustomTime", "Event", "EventP", "Prims", "Loose", "Node",
            "Base", "Extended", "ExtendedP", "A", "B", "Conflict", "Shadow",
            "ShadowBoth", "Twin", "Dashed", "Plain", "Key", "Keyed", "Numbered",
            "Left", "Right", "Diamond", "Dup", "C", "Triple", "Wrap", "Deep",
            "Rec", "Tree", "Self"} |->
      CASE n = "Person" -> Struct(<<Field(kGoName, kName, StringT),
                                     Field(<<"A","g","e">>, kOmit, IntT)>>)
        [] n = "Address" -> Struct(<<Field(<<"C","i","t","y">>, kCity, StringT)>>)
        [] n = "Resident" -> Struct(<<Field(kGoName, kName, StringT),
                                       Field(<<"A","d","d","r">>, kAddress, Named("Address"))>>)
        [] n = "Tenant" -> Struct(<<Field(kGoName, kName, StringT),
                                     Field(<<"A","d","d","r">>, kAddress, PtrTo(Named("Address")))>>)
        [] n = "Group" -> Struct(<<Field(<<"L","i","s","t">>, kList, SliceOf(Named("Address")))>>)
        [] n = "Dict" -> Struct(<<Field(<<"I","t","e","m","s">>, kItems,
                                         MapOf(StringT, PtrTo(Named("Address"))))>>)
        [] n = "Grid" -> Struct(<<Field(<<"C","e","l","l","s">>, kCells,
                                         ArrayOf(2, Named("Address")))>>)
        [] n = "Time" -> CustomStruct(<<Unexported(<<"w","a","l","l">>, IntT)>>)
        [] n = "CustomTime" -> CustomStruct(<<Embedded(<<"T","i","m","e">>, Named("Time"))>>)
        [] n = "Event" -> Struct(<<Field(kGoName, kName, StringT),
                                    Field(<<"D","a","t","e">>, kDate, Named("CustomTime"))>>)
        [] n = "EventP" -> Struct(<<Field(kGoName, kName, StringT),
                                     Field(<<"D","a","t","e">>, kDate, PtrTo(Named("CustomTime")))>>)
        [] n = "Prims" -> Struct(<<Field(<<"T","a","g","s">>, kTags, SliceOf(StringT)),
                                    Field(<<"C","o","u","n","t","s">>, kCounts, MapOf(StringT, IntT))>>)
        [] n = "Loose" -> Struct(<<Field(<<"V","a","l">>, kVal, AnyT)>>)
        [] n = "Node" -> Struct(<<Field(kID, kId, StringT),
                                   Field(<<"N","e","x","t">>, kNext, PtrTo(Named("Node")))>>)
        [] n = "Base" -> Struct(<<Field(kID, kId, IntT),
                                   Field(kGoName, kName, StringT)>>)
        [] n = "Extended" -> Struct(<<Embedded(<<"B","a","s","e">>, Named("Base")),
                                       Field(<<"E","x","t","r","a">>, kExtra, StringT)>>)
        [] n = "ExtendedP" -> Struct(<<Embedded(<<"B","a","s","e">>, PtrTo(Named("Base"))),
                                        Field(<<"E","x","t","r","a">>, kExtra, StringT)>>)
        [] n = "A" -> Struct(<<Field(kGoName, kName, StringT)>>)
        [] n = "B" -> Struct(<<Field(kGoName, kName, StringT)>>)
        [] n = "Conflict" -> Struct(<<Embedded(<<"A">>, Named("A")),
                                       Embedded(<<"B">>, Named("B"))>>)
        [] n = "Shadow" -> Struct(<<Field(kGoName, kName, StringT),
                                     Embedded(<<"A">>, Named("A"))>>)
        [] n = "ShadowBoth" -> Struct(<<Field(kGoName, kName, StringT),
                                         Embedded(<<"A">>, Named("A")),
                                         Embedded(<<"B">>, Named("B"))>>)
        [] n = "Twin" -> Struct(<<Field(<<"L","o">>, kId, IntT),
                                   Field(<<"H","i">>, kID, IntT)>>)
        [] n = "Dashed" -> Struct(<<Field(kGoName, kName, StringT),
                                     Field(kGoSecret, kDash, StringT)>>)
        [] n = "Plain" -> Struct(<<Field(kGoName, <<>>, StringT),
                                    Unexported(<<"a","g","e">>, IntT)>>)
        [] n = "Key" -> Defined(StringT)
        [] n = "Keyed" -> Struct(<<Field(<<"I","t","e","m","s">>, kItems,
                                          MapOf(Named("Key"), Named("Address")))>>)
        [] n = "Numbered" -> Struct(<<Field(<<"I","t","e","m","s">>, kItems,
                                             MapOf(IntT, Named("Address")))>>)
        [] n = "Left" -> Struct(<<Embedded(<<"B","a","s","e">>, Named("Base"))>>)
        [] n = "Right" -> Struct(<<Embedded(<<"B","a","s","e">>, Named("Base"))>>)
        [] n = "Diamond" -> Struct(<<Embedded(<<"L","e","f","t">>, Named("Left")),
                                      Embedded(<<"R","i","g","h","t">>, Named("Right"))>>)
        [] n = "Dup" -> Struct(<<Field(<<"L","o">>, kId, IntT),
                                  Field(<<"H","i">>, kId, IntT)>>)
        [] n = "C" -> Struct(<<Field(kGoName, kName, StringT)>>)
        [] n = "Triple" -> Struct(<<Embedded(<<"A">>, Named("A")),
                                     Embedded(<<"B">>, Named("B")),
                                     Embedded(<<"C">>, Named("C"))>>)
        [] n = "Wrap" -> Struct(<<Embedded(<<"C">>, Named("C"))>>)
        [] n = "Deep" -> Struct(<<Embedded(<<"A">>, Named("A")),
                                   Embedded(<<"B">>, Named("B")),
                                   Embedded(<<"W","r","a","p">>, Named("Wrap"))>>)
        [] n = "Rec" -> Defined(SliceOf(Named("Rec")))
        [] n = "Tree" -> Defined(MapOf(StringT, Named("Tree")))
        [] n = "Self" -> Struct(<<Embedded(<<"S","e","l","f">>, PtrTo(Named("Self"))),
                                   Field(kID, kId, IntT)>>)]

\* The declared types a type expression mentions, those a declaration
\* mentions, and the declarations a program with a variable of type t holds.
RECURSIVE Mentions(_)
Mentions(t) ==
    CASE t.kind = "named" -> {t.name}
      [] t.kind \in {"ptr", "slice", "array"} -> Mentions(t.elem)
      [] t.kind = "map" -> Mentions(t.key) \cup Mentions(t.elem)
      [] OTHER -> {}

Uses(n) ==
    IF Decl[n].kind = "struct"
    THEN UNION {Mentions(Decl[n].fields[i].typ) : i \in DOMAIN Decl[n].fields}
    ELSE Mentions(Decl[n].under)

RECURSIVE Closure(_)
Closure(S) ==
    IF UNION {Uses(n) : n \in S} \subseteq S THEN S
    ELSE Closure(S \cup UNION {Uses(n) : n \in S})

Program(t) == [n \in Closure(Mentions(t)) |-> Decl[n]]

\* reflect.Type.Kind
Kind(t) == IF t.kind = "named" THEN types[t.name].kind ELSE t.kind

\* reflect.Type.Elem of a pointer, slice, array or map type.
Elem(t) == IF t.kind = "named" THEN types[t.name].under.elem ELSE t.elem

\* The members of a struct type (NumField / Field(i)).
Fields(t) == types[t.name].fields
NumField(t) == Len(Fields(t))

(***************************************************************************)
(* Values (what a reflect.Value of the type holds).                        *)
(***************************************************************************)
EmptyMap == [x \in {} |-> {}]

NilPtr == [k |-> "ptr", nil |-> TRUE]
PtrValue(v) == [k |-> "ptr", nil |-> FALSE, elem |-> v]
NilSlice == [k |-> "slice", nil |-> TRUE, e |-> <<>>]
SliceValue(es) == [k |-> "slice", nil |-> FALSE, e |-> es]
NilMap == [k |-> "map", nil |-> TRUE, m |-> EmptyMap]
MapValue(m) == [k |-> "map", nil |-> FALSE, m |-> m]
IntValue(n) == [k |-> "int", n |-> n]
StringValue(s) == [k |-> "string", s |-> s]
NilInterface == [k |-> "interface", nil |-> TRUE]
InterfaceValue(raw) == [k |-> "interface", nil |-> FALSE, dyn |-> raw]

\* The zero value of a type: reflect.New(t).Elem(), a fresh variable.
\* A struct value carries, besides its members, the list of byte buffers its
\* UnmarshalJSON method was called with (always empty without such a method).
RECURSIVE Zero(_)
Zero(t) ==
    CASE Kind(t) = "int" -> IntValue(0)
      [] Kind(t) = "string" -> StringValue("")
      [] Kind(t) = "interface" -> NilInterface
      [] Kind(t) = "ptr" -> NilPtr
      [] Kind(t) = "slice" -> NilSlice
      [] Kind(t) = "map" -> NilMap
      [] Kind(t) = "array" -> [k |-> "array", e |-> [i \in 1..t.len |-> Zero(Elem(t))]]
      [] Kind(t) = "struct" ->
           [k |-> "struct",
            f |-> [i \in 1..NumField(t) |-> Zero(Fields(t)[i].typ)],
            got |-> <<>>]

\* reflect.Value.Field(i).Set(x) on a struct value.
SetField(v, i, x) ==
    [k |-> "struct",
     f |-> [j \in DOMAIN v.f |-> IF j = i THEN x ELSE v.f[j]],
     got |-> v.got]

(***************************************************************************)
(* src/errors.go                                                           *)
(***************************************************************************)
errPrefixNonPointer == "strictjson: Unmarshal(non-pointer)"

NoError == [e |-> "nil"]

newNonPointerError == [e |-> "UnmarshalError", message |-> errPrefixNonPointer]

newUnknownFieldError(fieldName, suggestion) ==
    [e |-> "unknownFieldError", fieldName |-> fieldName, suggestion |-> suggestion]

newFieldConflictError(fieldName) ==
    [e |-> "fieldConflictError", fieldName |-> fieldName]

\* Errors of encoding/json: a *json.SyntaxError or a *json.UnmarshalTypeError;
\* the error a custom UnmarshalJSON returns.
JsonSyntaxError == [e |-> "json", what |-> "syntax"]
JsonTypeError == [e |-> "json", what |-> "type"]
CustomError == [e |-> "custom"]
\* A run-time panic of package reflect (the call does not return).
ReflectPanic == [e |-> "panic"]
\* The goroutine's stack grows past its limit: the run-time ends the process
\* with "fatal error: stack overflow" (the call does not return).
StackOverflow == [e |-> "fatal"]

\* The Error() methods: the message as the list of its pieces, the %s
\* arguments being pieces of their own.
Error(err) ==
    CASE err.e = "UnmarshalError" -> <<err.message>>
      [] err.e = "unknownFieldError" ->
           IF err.suggestion # <<>>
           THEN <<"strictjson: unknown field \"", err.fieldName,
                  "\" (did you mean \"", err.suggestion, "\"?)">>
           ELSE <<"strictjson: unknown or mis-cased field \"", err.fieldName, "\"">>
      [] err.e = "fieldConflictError" ->
           <<"strictjson: field conflict: \"", err.fieldName,
             "\" defined in multiple embedded structs">>

(***************************************************************************)
(* src/unnamed/part_000: the Decoder.                                      *)
(***************************************************************************)
WithDisallowUnknownFields(disallow) == [set |-> "DisallowUnknownFields", to |-> disallow]
WithSuggestClosest(suggest) == [set |-> "SuggestClosest", to |-> suggest]

RECURSIVE ApplyOpts(_, _)
ApplyOpts(d, opts) ==
    IF opts = <<>> THEN d
    ELSE ApplyOpts(IF Head(opts).set = "DisallowUnknownFields"
                   THEN [d EXCEPT !.DisallowUnknownFields = Head(opts).to]
                   ELSE [d EXCEPT !.SuggestClosest = Head(opts).to],
                   Tail(opts))

NewDecoder(opts) ==
    ApplyOpts([DisallowUnknownFields |-> TRUE, SuggestClosest |-> FALSE], opts)

(***************************************************************************)
(* The suggestion search.                                                  *)
(***************************************************************************)
minOfThree(a, b, c) ==
    IF a < b
    THEN (IF a < c THEN a ELSE c)
    ELSE (IF b < c THEN b ELSE c)

\* One pass of the inner loop: curr[1..j-1] is filled, returns the full row.
\* Rows are indexed 1..len(s2)+1 for the code's 0..len(s2).
RECURSIVE LevRow(_, _, _, _, _, _)
LevRow(s1, s2, i, j, prev, curr) ==
    IF j > Len(s2) THEN curr
    ELSE LET cost == IF s1[i] # s2[j] THEN 1 ELSE 0
             c == minOfThree(prev[j + 1] + 1, curr[j] + 1, prev[j] + cost)
         IN LevRow(s1, s2, i, j + 1, prev, [curr EXCEPT ![j + 1] = c])

RECURSIVE LevRows(_, _, _, _)
LevRows(s1, s2, i, prev) ==
    IF i > Len(s1) THEN prev
    ELSE LevRows(s1, s2, i + 1,
                 LevRow(s1, s2, i, 1, prev, [prev EXCEPT ![1] = i]))

levenshteinDistance(s1, s2) ==
    IF Len(s1) = 0 THEN Len(s2)
    ELSE IF Len(s2) = 0 THEN Len(s1)
    ELSE LevRows(s1, s2, 1, [j \in 1..(Len(s2) + 1) |-> j - 1])[Len(s2) + 1]

\* The search with the edit distance tried before the match ignoring case.
findSuggestionNearFirst(unknown, knownNames) ==
    LET unknownLower == ToLower(unknown)
        exact == {i \in DOMAIN knownNames : ToLower(knownNames[i]) = unknownLower}
        close == {i \in DOMAIN knownNames :
                     levenshteinDistance(unknown, knownNames[i]) <= 2}
        first(S) == CHOOSE i \in S : \A j \in S : i <= j
    IN IF close # {} THEN knownNames[first(close)]
       ELSE IF exact # {} THEN knownNames[first(exact)]
       ELSE <<>>

findSuggestion(unknown, knownNames) ==
    LET unknownLower == ToLower(unknown)
        exact == {i \in DOMAIN knownNames : ToLower(knownNames[i]) = unknownLower}
        close == {i \in DOMAIN knownNames :
                     levenshteinDistance(unknown, knownNames[i]) <= 2}
        first(S) == CHOOSE i \in S : \A j \in S : i <= j
    IN IF exact # {} THEN knownNames[first(exact)]
       ELSE IF close # {} THEN knownNames[first(close)]
       ELSE <<>>

(***************************************************************************)
(* The field map builder.                                                  *)
(***************************************************************************)
implementsUnmarshaler(t) ==
    /\ t.kind = "ptr"
    /\ t.elem.kind = "named"
    /\ types[t.elem.name].um

\* for t.Kind() == reflect.Ptr { t = t.Elem() }
RECURSIVE Deref(_)
Deref(t) == IF Kind(t) = "ptr" THEN Deref(Elem(t)) ELSE t

\* All orders in which `range` may visit the keys of a Go map.
RECURSIVE Perms(_)
Perms(S) ==
    IF S = {} THEN {<<>>}
    ELSE UNION {{<<x>> \o p : p \in Perms(S \ {x})} : x \in S}

MapPut(m, key, val) == [x \in DOMAIN m \cup {key} |-> IF x = key THEN val ELSE m[x]]
MapDelete(m, key) == [x \in DOMAIN m \ {key} |-> m[x]]

\* The loop body without the test for a name claimed at a shallower level.
ScanMemberUnshadowed(f, path, st) ==
    LET tag == f.tag
        tagName == parseTag(tag).name
        name == IF tagName = <<>> THEN f.name ELSE tagName
    IN IF f.anonymous
       THEN [st EXCEPT !.next = Append(@, [typ |-> f.typ, index |-> path])]
       ELSE IF ~f.exported THEN st
       ELSE IF tag = kDash THEN st
       ELSE IF name \in st.found
       THEN [st EXCEPT !.fields = MapDelete(@, name), !.conflict = name]
       ELSE [st EXCEPT !.fields = MapPut(@, name, [jsonName |-> name, fieldIndex |-> path]),
                       !.found = @ \cup {name}]

\* The body of the loop over the members of a struct type, for the member f
\* reached by the index path.
\* st: fields (sf.fields), conflict (sf.conflict, <<>> for ""),
\*     found (fieldsFoundThisLevel), visited (visitedTypes), next (nextLevel).
ScanMember(f, path, st) ==
    LET tag == f.tag
        tagName == parseTag(tag).name
        name == IF tagName = <<>> THEN f.name ELSE tagName
    IN IF f.anonymous
       THEN [st EXCEPT !.next = Append(@, [typ |-> f.typ, index |-> path])]
       ELSE IF ~f.exported THEN st
       ELSE IF tag = kDash THEN st
       ELSE IF name \in st.found
       THEN [st EXCEPT !.fields = MapDelete(@, name), !.conflict = name]
       ELSE IF name \in DOMAIN st.fields THEN st
       ELSE [st EXCEPT !.fields = MapPut(@, name, [jsonName |-> name, fieldIndex |-> path]),
                       !.found = @ \cup {name}]

\* The loop over the members of one struct type (members i..NumField).
RECURSIVE ScanFields(_, _, _, _)
ScanFields(typ, index, i, st) ==
    IF i > NumField(typ) THEN st
    ELSE ScanFields(typ, index, i + 1, ScanMember(Fields(typ)[i], Append(index, i), st))

\* The loop over the scans of the current level (scans j..len).
RECURSIVE ScanLevel(_, _, _)
ScanLevel(currentLevel, j, st) ==
    IF j > Len(currentLevel) THEN st
    ELSE LET scan == currentLevel[j]
             typ == Deref(scan.typ)
         IN IF Kind(typ) # "struct" THEN ScanLevel(currentLevel, j + 1, st)
            ELSE IF typ.name \in st.visited THEN ScanLevel(currentLevel, j + 1, st)
            ELSE ScanLevel(currentLevel, j + 1,
                     ScanFields(typ, scan.index, 1,
                                [st EXCEPT !.visited = @ \cup {typ.name}]))

\* The loop over the levels. The names found at a level are appended to
\* allNames while ranging over the map fieldsFoundThisLevel: in any order.
RECURSIVE BuildLevels(_, _, _)
BuildLevels(currentLevel, sf, visited) ==
    IF Len(currentLevel) = 0 THEN {sf}
    ELSE UNION {
           UNION {BuildLevels(st.next,
                      [fields |-> st.fields,
                       allNames |-> sf.allNames \o order,
                       conflict |-> st.conflict],
                      st.visited)
                  : order \in Perms({name \in st.found : name \in DOMAIN st.fields})}
         : st \in {ScanLevel(currentLevel, 1,
                       [fields |-> sf.fields, conflict |-> sf.conflict,
                        found |-> {}, visited |-> visited, next |-> <<>>])}}

\* Every descriptor buildStructFields may return for the type.
buildStructFields(t) ==
    BuildLevels(<<[typ |-> t, index |-> <<>>]>>,
                [fields |-> EmptyMap, allNames |-> <<>>, conflict |-> <<>>], {})

\* getStructFields without the test of the conflict marker.
getStructFieldsUnchecked(t, cache) ==
    IF t \in DOMAIN cache
    THEN {[sf |-> cache[t], err |-> NoError, cache |-> cache]}
    ELSE {[sf |-> sf, err |-> NoError, cache |-> MapPut(cache, t, sf)] :
             sf \in buildStructFields(t)}

\* getStructFields on the cache as it stands: every (descriptor, error, cache
\* afterwards) the call may produce. The cache is keyed by the type.
getStructFields(t, cache) ==
    IF t \in DOMAIN cache
    THEN LET sf == cache[t]
         IN IF sf.conflict # <<>>
            THEN {[sf |-> sf, err |-> newFieldConflictError(sf.conflict), cache |-> cache]}
            ELSE {[sf |-> sf, err |-> NoError, cache |-> cache]}
    ELSE {[sf |-> sf,
           err |-> IF sf.conflict # <<>>
                   THEN newFieldConflictError(sf.conflict) ELSE NoError,
           cache |-> MapPut(cache, t, sf)] : sf \in buildStructFields(t)}

(***************************************************************************)
(* Raw JSON (the bytes, as their parsed tree).                             *)
(***************************************************************************)
JNull == [j |-> "null"]
JBad == [j |-> "bad"]
JNum(n) == [j |-> "num", n |-> n]
JStr(s) == [j |-> "str", s |-> s]
JArr(es) == [j |-> "arr", e |-> es]
\* An object is the list of its members in document order.
JObj(ms) == [j |-> "obj", m |-> ms]
Member(key, val) == [key |-> key, val |-> val]

\* json.Unmarshal(data, &raw) with raw a map[string]json.RawMessage: the last
\* member of a repeated key stays.
parseObject(data) ==
    CASE data.j = "bad" -> [err |-> JsonSyntaxError, raw |-> EmptyMap]
      [] data.j = "null" -> [err |-> NoError, raw |-> EmptyMap]
      [] data.j = "obj" ->
           [err |-> NoError,
            raw |-> [key \in {data.m[i].key : i \in DOMAIN data.m} |->
                       data.m[CHOOSE i \in DOMAIN data.m :
                                /\ data.m[i].key = key
                                /\ \A i2 \in DOMAIN data.m :
                                     data.m[i2].key = key => i2 <= i].val]]
      [] OTHER -> [err |-> JsonTypeError, raw |-> EmptyMap]

\* json.Unmarshal(data, &rawSlice) with rawSlice a []json.RawMessage.
parseArray(data) ==
    CASE data.j = "bad" -> [err |-> JsonSyntaxError, raw |-> <<>>]
      [] data.j = "null" -> [err |-> NoError, raw |-> <<>>]
      [] data.j = "arr" -> [err |-> NoError, raw |-> data.e]
      [] OTHER -> [err |-> JsonTypeError, raw |-> <<>>]

(***************************************************************************)
(* encoding/json.Unmarshal, the standard decode the walker delegates to.   *)
(***************************************************************************)
\* The UnmarshalJSON methods of the custom types (CustomTime of the tests):
\* the bytes must be a JSON string; the value keeps what it was handed.
UnmarshalJSON(data, v) ==
    [v |-> [v EXCEPT !.got = Append(@, data)],
     err |-> IF data.j = "str" THEN NoError ELSE CustomError]

\* Keep the earliest error (decodeState.saveError).
FirstError(e1, e2) == IF e1 # NoError THEN e1 ELSE e2

RECURSIVE LexLess(_, _)
LexLess(a, b) ==
    IF a = <<>> THEN b # <<>>
    ELSE IF b = <<>> THEN FALSE
    ELSE IF Head(a) # Head(b) THEN Head(a) < Head(b)
    ELSE LexLess(Tail(a), Tail(b))

\* The candidate fields of encoding/json's typeFields: every exported,
\* non-ignored member reachable through embedded structs, with its depth.
RECURSIVE StdCandidates(_, _, _)
StdCandidates(t, index, seen) ==
    UNION {LET f == Fields(t)[i]
               path == Append(index, i)
               tagName == parseTag(f.tag).name
               name == IF tagName = <<>> THEN f.name ELSE tagName
           IN IF f.anonymous
              THEN (IF Kind(Deref(f.typ)) = "struct" /\ Deref(f.typ).name \notin seen
                    THEN StdCandidates(Deref(f.typ), path, seen \cup {Deref(f.typ).name})
                    ELSE {})
              ELSE IF ~f.exported \/ f.tag = kDash THEN {}
              ELSE {[name |-> name, index |-> path, tagged |-> tagName # <<>>,
                     typ |-> f.typ]}
          : i \in 1..NumField(t)}

\* Go's rule for a name declared several times: the shallowest declaration
\* wins; several at that depth are resolved by the only tagged one, if any;
\* otherwise the name is dropped.
StdDominant(all) ==
    LET depth(c) == Len(c.index)
        top(c) == \A c2 \in all : c2.name = c.name => depth(c) <= depth(c2)
        rivals(c) == {c2 \in all : c2.name = c.name /\ depth(c2) = depth(c)}
    IN {c \in all :
          /\ top(c)
          /\ \/ rivals(c) = {c}
             \/ c.tagged /\ \A c2 \in rivals(c) \ {c} : ~c2.tagged}

\* The fields of a struct type as encoding/json resolves them.
StdFields(t) == StdDominant(StdCandidates(t, <<>>, {t.name}))

\* The field a key selects: the exact name, else the first field (in index
\* order) whose name equals the key ignoring case; {} when there is none.
StdMatch(fs, key) ==
    LET exact == {c \in fs : c.name = key}
        folded == {c \in fs : ToLower(c.name) = ToLower(key)}
    IN IF exact # {} THEN exact
       ELSE {c \in folded : \A c2 \in folded \ {c} : LexLess(c.index, c2.index)}

StdLookup(t, key) == StdMatch(StdFields(t), key)

\* The member at an index path (stepping through embedded pointers, a nil
\* one counting as a pointer to the zero value).
RECURSIVE ReadByIndex(_, _, _)
ReadByIndex(v, t, index) ==
    IF index = <<>> THEN v
    ELSE IF Kind(t) = "ptr"
    THEN ReadByIndex(IF v.nil THEN Zero(Elem(t)) ELSE v.elem, Elem(t), index)
    ELSE ReadByIndex(v.f[Head(index)], Fields(t)[Head(index)].typ, Tail(index))

\* The value after storing val at an index path, allocating nil embedded
\* pointers on the way.
RECURSIVE WriteByIndex(_, _, _, _)
WriteByIndex(v, t, index, val) ==
    IF index = <<>> THEN val
    ELSE IF Kind(t) = "ptr"
    THEN PtrValue(WriteByIndex(IF v.nil THEN Zero(Elem(t)) ELSE v.elem,
                               Elem(t), index, val))
    ELSE SetField(v, Head(index),
                  WriteByIndex(v.f[Head(index)], Fields(t)[Head(index)].typ,
                               Tail(index), val))

\* strconv on a map key of integer kind: the digits' value, -1 if not digits.
Digits == <<"0","1","2","3","4","5","6","7","8","9">>
ParseInt(key) ==
    IF Len(key) = 1 /\ \E i \in DOMAIN Digits : Digits[i] = key[1]
    THEN (CHOOSE i \in DOMAIN Digits : Digits[i] = key[1]) - 1
    ELSE -1

RECURSIVE stdValue(_, _, _)
RECURSIVE stdMembers(_, _, _, _, _)
RECURSIVE stdElems(_, _, _, _, _, _)
RECURSIVE stdEntries(_, _, _, _, _)

\* What the decode r of the pointee, of the elements of a slice and of the
\* elements of an array leaves in the pointer, the slice and the array.
stdPointer(r) == [v |-> PtrValue(r.v), err |-> r.err]
stdSlice(n, r) == [v |-> SliceValue(SubSeq(r.v, 1, n)), err |-> r.err]
stdArray(n, t, r) ==
    [v |-> [k |-> "array",
            e |-> [i \in 1..t.len |-> IF i <= n THEN r.v[i] ELSE Zero(Elem(t))]],
     err |-> r.err]

\* decodeState.value on valid bytes: the value stored and the error returned.
stdValue(data, v, t) ==
    IF data.j = "null" /\ Kind(t) = "ptr" THEN [v |-> NilPtr, err |-> NoError]
    ELSE IF Kind(t) = "ptr"
    THEN stdPointer(stdValue(data, IF v.nil THEN Zero(Elem(t)) ELSE v.elem, Elem(t)))
    ELSE IF implementsUnmarshaler(PtrTo(t)) THEN UnmarshalJSON(data, v)
    ELSE IF data.j = "null"
    THEN [v |-> IF Kind(t) \in {"slice", "map", "interface"} THEN Zero(t) ELSE v,
          err |-> NoError]
    ELSE CASE Kind(t) = "int" ->
                IF data.j = "num" THEN [v |-> IntValue(data.n), err |-> NoError]
                ELSE [v |-> v, err |-> JsonTypeError]
           [] Kind(t) = "string" ->
                IF data.j = "str" THEN [v |-> StringValue(data.s), err |-> NoError]
                ELSE [v |-> v, err |-> JsonTypeError]
           [] Kind(t) = "interface" -> [v |-> InterfaceValue(data), err |-> NoError]
           [] Kind(t) = "struct" ->
                IF data.j = "obj" THEN stdMembers(data.m, 1, v, t, NoError)
                ELSE [v |-> v, err |-> JsonTypeError]
           [] Kind(t) = "slice" ->
                IF data.j = "arr"
                THEN stdSlice(Len(data.e),
                              stdElems(data.e, 1, Len(data.e), v.e, Elem(t), NoError))
                ELSE [v |-> v, err |-> JsonTypeError]
           [] Kind(t) = "array" ->
                IF data.j = "arr"
                THEN stdArray(Len(data.e), t,
                              stdElems(data.e, 1, t.len, v.e, Elem(t), NoError))
                ELSE [v |-> v, err |-> JsonTypeError]
           [] Kind(t) = "map" ->
                IF data.j = "obj"
                THEN stdEntries(data.m, 1, IF v.nil THEN MapValue(EmptyMap) ELSE v,
                                t, NoError)
                ELSE [v |-> v, err |-> JsonTypeError]

\* Member i of a raw object into the field c of a struct, r being the decode
\* of its value; then the members after it.
stdMemberStore(ms, i, v, t, err, c, r) ==
    stdMembers(ms, i + 1, WriteByIndex(v, t, c.index, r.v), t, FirstError(err, r.err))

stdMemberInto(ms, i, v, t, err, c) ==
    stdMemberStore(ms, i, v, t, err, c,
                   stdValue(ms[i].val, ReadByIndex(v, t, c.index), c.typ))

\* Member i, hit being the fields its key selects (none: it is skipped).
stdMember(ms, i, v, t, err, hit) ==
    IF hit = {} THEN stdMembers(ms, i + 1, v, t, err)
    ELSE stdMemberInto(ms, i, v, t, err, CHOOSE c \in hit : TRUE)

\* The members of a raw object into a struct, in document order.
stdMembers(ms, i, v, t, err) ==
    IF i > Len(ms) THEN [v |-> v, err |-> err]
    ELSE stdMember(ms, i, v, t, err, StdLookup(t, ms[i].key))

\* The first n elements of a raw array; an element lands on the element the
\* target already has at that position, else on a zero value.
stdElemStore(es, i, n, old, et, err, r) ==
    stdElems(es, i + 1, n,
             IF i <= Len(old) THEN [old EXCEPT ![i] = r.v] ELSE Append(old, r.v),
             et, FirstError(err, r.err))

stdElems(es, i, n, old, et, err) ==
    IF i > Len(es) \/ i > n THEN [v |-> old, err |-> err]
    ELSE stdElemStore(es, i, n, old, et, err,
             stdValue(es[i], IF i <= Len(old) THEN old[i] ELSE Zero(et), et))

\* The members of a raw object into a map, in document order.
stdEntryStore(ms, i, v, t, err, r) ==
    LET badKey == Kind(t.key) = "int" /\ ParseInt(ms[i].key) < 0
        key == IF Kind(t.key) = "int" THEN ParseInt(ms[i].key) ELSE ms[i].key
    IN IF badKey
       THEN stdEntries(ms, i + 1, v, t, FirstError(FirstError(err, r.err), JsonTypeError))
       ELSE stdEntries(ms, i + 1, [v EXCEPT !.m = MapPut(@, key, r.v)], t,
                       FirstError(err, r.err))

stdEntries(ms, i, v, t, err) ==
    IF i > Len(ms) THEN [v |-> v, err |-> err]
    ELSE stdEntryStore(ms, i, v, t, err, stdValue(ms[i].val, Zero(Elem(t)), Elem(t)))

\* json.Unmarshal(data, &v): the bytes are checked to be valid JSON first.
stdUnmarshal(data, v, t) ==
    IF data.j = "bad" THEN [v |-> v, err |-> JsonSyntaxError]
    ELSE stdValue(data, v, t)

(***************************************************************************)
(* The strict walker.                                                      *)
(***************************************************************************)
\* What a step leaves behind: the value now stored in its target, the error
\* it returns and the descriptor cache afterwards.
Outcome(v, err, cache) == [v |-> v, err |-> err, cache |-> cache]

containsStructStep(t) ==
    CASE Kind(t) = "struct" -> IF implementsUnmarshaler(PtrTo(t)) THEN "no" ELSE "yes"
      [] Kind(t) \in {"slice", "array"} -> "elem"
      [] Kind(t) = "map" -> "elem"
      [] OTHER -> "no"

\* Every element type taken to need the strict walk.
containsStructAlways(t) == TRUE

RECURSIVE containsStruct(_)
containsStruct(t) ==
    LET u == Deref(t)
    IN CASE containsStructStep(u) = "yes" -> TRUE
         [] containsStructStep(u) = "elem" -> containsStruct(Elem(u))
         [] OTHER -> FALSE

\* The chain of calls containsStruct(t) makes: each call on a slice, array or
\* map type calls containsStruct on the element type. The type being all a
\* call depends on, a type that comes again in the chain comes again for
\* ever.
RECURSIVE containsStructCalls(_, _)
containsStructCalls(t, seen) ==
    LET u == Deref(t)
    IN IF u \in seen THEN "overflow"
       ELSE IF containsStructStep(u) = "elem"
       THEN containsStructCalls(Elem(u), seen \cup {u})
       ELSE "returns"

containsStructOverflows(t) == containsStructCalls(t, {}) = "overflow"

\* getFieldByIndex allocating a fresh record at every embedded pointer, nil
\* or not.
RECURSIVE getFieldByIndexFresh(_, _, _, _)
getFieldByIndexFresh(v, t, index, canSet) ==
    IF index = <<>> THEN [valid |-> TRUE, root |-> v, val |-> v, typ |-> t]
    ELSE IF Kind(t) = "ptr" /\ v.nil /\ ~canSet
    THEN [valid |-> FALSE, root |-> v, val |-> v, typ |-> t]
    ELSE LET isPtr == Kind(t) = "ptr"
             st == IF isPtr THEN Elem(t) ELSE t
             sv == IF isPtr THEN Zero(st) ELSE v
             wrap(x) == IF isPtr THEN PtrValue(x) ELSE x
         IN IF Kind(st) # "struct"
            THEN [valid |-> FALSE, root |-> wrap(sv), val |-> sv, typ |-> st]
            ELSE LET f == Fields(st)[Head(index)]
                     r == getFieldByIndexFresh(sv.f[Head(index)], f.typ, Tail(index),
                                               f.exported)
                 IN [valid |-> r.valid,
                     root |-> wrap(SetField(sv, Head(index), r.root)),
                     val |-> r.val,
                     typ |-> r.typ]

\* getFieldByIndex: valid (the returned Value is valid), root (the value v
\* holds afterwards: nil embedded pointers on the path are allocated), val
\* and typ (the member reached). canSet is v.CanSet().
RECURSIVE getFieldByIndex(_, _, _, _)
getFieldByIndex(v, t, index, canSet) ==
    IF index = <<>> THEN [valid |-> TRUE, root |-> v, val |-> v, typ |-> t]
    ELSE IF Kind(t) = "ptr" /\ v.nil /\ ~canSet
    THEN [valid |-> FALSE, root |-> v, val |-> v, typ |-> t]
    ELSE LET isPtr == Kind(t) = "ptr"
             st == IF isPtr THEN Elem(t) ELSE t
             sv == IF isPtr THEN (IF v.nil THEN Zero(st) ELSE v.elem) ELSE v
             wrap(x) == IF isPtr THEN PtrValue(x) ELSE x
         IN IF Kind(st) # "struct"
            THEN [valid |-> FALSE, root |-> wrap(sv), val |-> sv, typ |-> st]
            ELSE LET f == Fields(st)[Head(index)]
                     r == getFieldByIndex(sv.f[Head(index)], f.typ, Tail(index),
                                          f.exported)
                 IN [valid |-> r.valid,
                     root |-> wrap(SetField(sv, Head(index), r.root)),
                     val |-> r.val,
                     typ |-> r.typ]

\* allocatePointers: the value v holds afterwards (every nil pointer of the
\* chain points to a fresh zero value).
RECURSIVE allocatePointers(_, _)
allocatePointers(v, t) ==
    IF Kind(t) = "ptr"
    THEN PtrValue(allocatePointers(IF v.nil THEN Zero(Elem(t)) ELSE v.elem, Elem(t)))
    ELSE v

\* The Value allocatePointers returns: the end of the pointer chain.
RECURSIVE Pointee(_, _)
Pointee(v, t) == IF Kind(t) = "ptr" THEN Pointee(v.elem, Elem(t)) ELSE v

\* A write through that Value, seen from the start of the chain.
RECURSIVE SetPointee(_, _, _)
SetPointee(v, t, val) ==
    IF Kind(t) = "ptr" THEN PtrValue(SetPointee(v.elem, Elem(t), val)) ELSE val

RECURSIVE unmarshalValue(_, _, _, _, _)
RECURSIVE unmarshalStruct(_, _, _, _, _)
RECURSIVE unmarshalSlice(_, _, _, _, _)
RECURSIVE unmarshalMap(_, _, _, _, _)
RECURSIVE decodeFields(_, _, _, _, _, _, _)
RECURSIVE decodeElems(_, _, _, _, _, _, _)
RECURSIVE decodeEntries(_, _, _, _, _, _)

\* The test for the null token left out.
IsNullNever(data) == FALSE

\* string(data) == "null"
IsNull(data) == data = JNull

\* The type whose method set decides the delegation to a custom decoder:
\* v.Addr().Type(), the pointer to v's static type.
CustomProbe(t) == PtrTo(t)

\* The kind-switch of unmarshalValue on the pointee.
Dispatch(d, data, v, t, cache) ==
    CASE Kind(t) = "struct" -> unmarshalStruct(d, data, v, t, cache)
      [] Kind(t) = "slice" -> unmarshalSlice(d, data, v, t, cache)
      [] Kind(t) = "map" -> unmarshalMap(d, data, v, t, cache)
      [] OTHER -> {Outcome(r.v, r.err, cache) : r \in {stdUnmarshal(data, v, t)}}

\* Every value handed to unmarshalValue is addressable (the pointee of the
\* target, a member of an addressable struct, an element of a fresh slice, a
\* fresh variable), so v.CanAddr() holds.
unmarshalValue(d, data, v, t, cache) ==
    IF IsNull(data) THEN {Outcome(v, NoError, cache)}
    ELSE IF implementsUnmarshaler(CustomProbe(t))
    THEN {Outcome(r.v, r.err, cache) : r \in {stdUnmarshal(data, v, t)}}
    ELSE UNION {{[o EXCEPT !.v = SetPointee(va, t, o.v)] :
                   o \in Dispatch(d, data, Pointee(va, t), Deref(t), cache)}
                : va \in {allocatePointers(v, t)}}

\* The keys the first loop of unmarshalStruct may stop at.
UnknownKeys(d, raw, sf) ==
    IF d.DisallowUnknownFields
    THEN {jsonKey \in DOMAIN raw : jsonKey \notin DOMAIN sf.fields}
    ELSE {}

\* The suggestion searched for whatever the switch says.
SuggestionAlways(d, jsonKey, sf) == findSuggestion(jsonKey, sf.allNames)

\* The suggestion handed to newUnknownFieldError.
Suggestion(d, jsonKey, sf) ==
    IF d.SuggestClosest THEN findSuggestion(jsonKey, sf.allNames) ELSE <<>>

unmarshalStruct(d, data, v, t, cache) ==
    LET p == parseObject(data)
    IN IF p.err # NoError THEN {Outcome(v, p.err, cache)}
       ELSE UNION {
              IF g.err # NoError THEN {Outcome(v, g.err, g.cache)}
              ELSE IF UnknownKeys(d, p.raw, g.sf) # {}
              THEN {Outcome(v, newUnknownFieldError(jsonKey,
                                   Suggestion(d, jsonKey, g.sf)), g.cache) :
                       jsonKey \in UnknownKeys(d, p.raw, g.sf)}
              ELSE decodeFields(d, p.raw, g.sf, DOMAIN p.raw, v, t, g.cache)
            : g \in getStructFields(t, cache)}

\* The second loop of unmarshalStruct going on to the other keys after a
\* member failed, and returning the failure at the end.
decodeFieldsOn(d, raw, sf, todo, v, t, cache) ==
    IF todo = {} THEN {Outcome(v, NoError, cache)}
    ELSE UNION {
           IF jsonKey \notin DOMAIN sf.fields
           THEN decodeFields(d, raw, sf, todo \ {jsonKey}, v, t, cache)
           ELSE UNION {
                  IF ~g.valid
                  THEN decodeFields(d, raw, sf, todo \ {jsonKey}, g.root, t, cache)
                  ELSE UNION {
                         UNION {
                           IF o.err # NoError
                           THEN {Outcome(r.v, o.err, r.cache) :
                                    r \in decodeFields(d, raw, sf, todo \ {jsonKey}, v2, t,
                                                       o.cache)}
                           ELSE decodeFields(d, raw, sf, todo \ {jsonKey}, v2, t, o.cache)
                         : v2 \in {WriteByIndex(g.root, t, sf.fields[jsonKey].fieldIndex,
                                                o.v)}}
                       : o \in unmarshalValue(d, raw[jsonKey], g.val, g.typ, cache)}
                : g \in {getFieldByIndex(v, t, sf.fields[jsonKey].fieldIndex, TRUE)}}
         : jsonKey \in todo}

\* The second loop of unmarshalStruct with the keys in todo still to visit.
decodeFields(d, raw, sf, todo, v, t, cache) ==
    IF todo = {} THEN {Outcome(v, NoError, cache)}
    ELSE UNION {
           IF jsonKey \notin DOMAIN sf.fields
           THEN decodeFields(d, raw, sf, todo \ {jsonKey}, v, t, cache)
           ELSE UNION {
                  IF ~g.valid
                  THEN decodeFields(d, raw, sf, todo \ {jsonKey}, g.root, t, cache)
                  ELSE UNION {
                         UNION {
                           IF o.err # NoError THEN {Outcome(v2, o.err, o.cache)}
                           ELSE decodeFields(d, raw, sf, todo \ {jsonKey}, v2, t, o.cache)
                         : v2 \in {WriteByIndex(g.root, t, sf.fields[jsonKey].fieldIndex,
                                                o.v)}}
                       : o \in unmarshalValue(d, raw[jsonKey], g.val, g.typ, cache)}
                : g \in {getFieldByIndex(v, t, sf.fields[jsonKey].fieldIndex, TRUE)}}
         : jsonKey \in todo}

unmarshalSlice(d, data, v, t, cache) ==
    LET p == parseArray(data)
    IN IF p.err # NoError THEN {Outcome(v, p.err, cache)}
       ELSE IF containsStructOverflows(Elem(t)) THEN {Outcome(v, StackOverflow, cache)}
       ELSE IF ~containsStruct(Elem(t))
       THEN {Outcome(r.v, r.err, cache) : r \in {stdUnmarshal(data, v, t)}}
       ELSE decodeElems(d, p.raw, 1, [i \in 1..Len(p.raw) |-> Zero(Elem(t))],
                        v, t, cache)

\* The loop of unmarshalSlice from element i on; newSlice replaces the
\* target only after the last element.
decodeElems(d, rawSlice, i, newSlice, v, t, cache) ==
    IF i > Len(rawSlice) THEN {Outcome(SliceValue(newSlice), NoError, cache)}
    ELSE UNION {
           IF o.err # NoError THEN {Outcome(v, o.err, o.cache)}
           ELSE decodeElems(d, rawSlice, i + 1, [newSlice EXCEPT ![i] = o.v],
                            v, t, o.cache)
         : o \in unmarshalValue(d, rawSlice[i], newSlice[i], Elem(t), cache)}

unmarshalMap(d, data, v, t, cache) ==
    LET p == parseObject(data)
    IN IF p.err # NoError THEN {Outcome(v, p.err, cache)}
       ELSE IF containsStructOverflows(Elem(t)) THEN {Outcome(v, StackOverflow, cache)}
       ELSE IF ~containsStruct(Elem(t))
       THEN {Outcome(r.v, r.err, cache) : r \in {stdUnmarshal(data, v, t)}}
       ELSE decodeEntries(d, p.raw, DOMAIN p.raw,
                          IF v.nil THEN MapValue(EmptyMap) ELSE v, t, cache)

\* The loop of unmarshalMap with the keys in todo still to visit.
\* reflect.Value.Convert panics on string -> a key type of another kind;
\* SetMapIndex panics when the key, a string, is not assignable to the key
\* type (a defined type of kind string).
decodeEntries(d, rawMap, todo, v, t, cache) ==
    IF todo = {} THEN {Outcome(v, NoError, cache)}
    ELSE UNION {
           IF Kind(t.key) # "string" THEN {Outcome(v, ReflectPanic, cache)}
           ELSE UNION {
                  IF o.err # NoError THEN {Outcome(v, o.err, o.cache)}
                  ELSE IF t.key # StringT THEN {Outcome(v, ReflectPanic, o.cache)}
                  ELSE decodeEntries(d, rawMap, todo \ {key},
                                     [v EXCEPT !.m = MapPut(@, key, o.v)], t, o.cache)
                : o \in unmarshalValue(d, rawMap[key], Zero(Elem(t)), Elem(t), cache)}
         : key \in todo}

\* Decoder.Unmarshal without the test of the target.
DecoderUnmarshalUnguarded(d, data, target, cache) ==
    unmarshalValue(d, data, target.v, target.t, cache)

\* Decoder.Unmarshal. The target v is described by how it is passed
\* ("pointer": a non-nil pointer, "nil": a nil pointer, "value": not a
\* pointer), the pointee's type and the value the pointee holds.
DecoderUnmarshal(d, data, target, cache) ==
    IF target.how # "pointer"
    THEN {Outcome(target.v, newNonPointerError, cache)}
    ELSE unmarshalValue(d, data, target.v, target.t, cache)

(***************************************************************************)
(* The calls the process makes: targets and documents.                     *)
(***************************************************************************)
\* The descriptor's resolved names do not depend on the order of allNames.
ResolvedNames(t) == DOMAIN (CHOOSE sf \in buildStructFields(t) : TRUE).fields
FieldOf(t, name) == (CHOOSE sf \in buildStructFields(t) : TRUE).fields[name]
FieldTypeOf(t, name) ==
    getFieldByIndex(Zero(t), t, FieldOf(t, name).fieldIndex, TRUE).typ

IsCustom(t) == Kind(t) = "struct" /\ implementsUnmarshaler(PtrTo(t))

\* A key with the case of the letters at the positions in flip changed.
FlipCase(key, flip) ==
    [i \in DOMAIN key |->
       IF i \in flip
       THEN (IF ToLowerChar(key[i]) = key[i] THEN ToUpperChar(key[i])
             ELSE ToLowerChar(key[i]))
       ELSE key[i]]

\* Every other spelling of the key that differs from it by letter case only.
CaseVariants(key) ==
    {FlipCase(key, flip) : flip \in SUBSET (DOMAIN key)} \ {key}

\* Keys that are no member's name: one letter short of "name", and one far
\* from every name.
kNam == <<"n","a","m">>
kFar == <<"q","q","q","q","q","q","q","q">>
StrangeKeys == {kNam, kFar}

MapKeysOf(t) ==
    [i \in 1..MaxElems |->
       IF Kind(t.key) = "int" THEN <<Digits[i + 1]>> ELSE <<Lowers[i]>>]

\* Sequences of at most n elements of S.
RECURSIVE SeqsUpTo(_, _)
SeqsUpTo(S, n) ==
    IF n = 0 THEN {<<>>}
    ELSE SeqsUpTo(S, n - 1) \cup
         {Append(q, x) : q \in {q \in SeqsUpTo(S, n - 1) : Len(q) = n - 1}, x \in S}

RECURSIVE ObjectsOver(_, _, _, _, _)
RECURSIVE Docs(_, _, _)

\* Well-typed documents for a type, with exact keys; full = every member is
\* present, none is null and no list is empty.
Docs(t, fuel, full) ==
    CASE Kind(t) = "int" -> {JNum(1)}
      [] Kind(t) = "string" -> {JStr("x")}
      [] Kind(t) = "interface" -> {JNum(1), JObj(<<Member(kGoName, JNum(1))>>)}
      [] Kind(t) = "ptr" -> Docs(Elem(t), fuel, full) \cup (IF full THEN {} ELSE {JNull})
      [] Kind(t) \in {"slice", "array"} ->
           LET elems == Docs(Elem(t), fuel, full) \cup (IF full THEN {} ELSE {JNull})
           IN {JArr(q) : q \in SeqsUpTo(elems, MaxElems) \ (IF full THEN {<<>>} ELSE {})}
      [] Kind(t) = "map" ->
           LET vals == Docs(Elem(t), fuel, full) \cup (IF full THEN {} ELSE {JNull})
           IN {JObj([i \in DOMAIN q |-> Member(MapKeysOf(t)[i], q[i])]) :
                  q \in SeqsUpTo(vals, MaxElems) \ (IF full THEN {<<>>} ELSE {})}
      [] IsCustom(t) -> {JStr("d"), JObj(<<Member(kGoName, JNum(1))>>)}
      [] Kind(t) = "struct" /\ ~IsCustom(t) ->
           IF fuel = 0 THEN {JObj(<<>>)}
           ELSE ObjectsOver(t, ResolvedNames(t), fuel, full, <<>>)

\* The objects with, for each name in turn (in member order), no member or a
\* member with one of the documents of the member's type.
ObjectsOver(t, names, fuel, full, ms) ==
    IF names = {} THEN {JObj(ms)}
    ELSE LET name == CHOOSE n \in names : \A n2 \in names \ {n} :
                        LexLess(FieldOf(t, n).fieldIndex, FieldOf(t, n2).fieldIndex)
             vals == Docs(FieldTypeOf(t, name), fuel - 1, full)
                        \cup (IF full THEN {} ELSE {JNull})
         IN UNION ({ObjectsOver(t, names \ {name}, fuel, full,
                                Append(ms, Member(name, val))) : val \in vals}
                   \cup (IF full THEN {}
                         ELSE {ObjectsOver(t, names \ {name}, fuel, full, ms)}))

\* A chain of n nested Node records around a last one.
RECURSIVE Chain(_, _)
Chain(n, last) ==
    IF n = 0 THEN last ELSE JObj(<<Member(kNext, Chain(n - 1, last))>>)

NoMutation == [kind |-> "none"]

\* One alteration of a document, with what was altered: the key now in the
\* document (kind "member": the Go name of a member of the record, which is
\* not one of its keys), the key it replaces (<<>> for an added member), the record type
\* the altered object is decoded as, how many objects enclose that object and
\* the kinds of the containers on the way to it.
Mutation(kind, key, from, rec, depth, via) ==
    [kind |-> kind, key |-> key, from |-> from, rec |-> rec, depth |-> depth, via |-> via,
     base |-> JNull]

RECURSIVE Mutations(_, _, _, _)
Mutations(t, doc, depth, via) ==
    CASE doc.j \notin {"obj", "arr"} -> {}
      [] Kind(t) = "ptr" -> Mutations(Elem(t), doc, depth, via \cup {"ptr"})
      [] Kind(t) \in {"slice", "array"} /\ doc.j = "arr" ->
           UNION {{[m EXCEPT !.doc = JArr([doc.e EXCEPT ![i] = m.doc]),
                             !.base = JArr([doc.e EXCEPT ![i] = m.base])] :
                      m \in Mutations(Elem(t), doc.e[i], depth, via \cup {Kind(t)})}
                  : i \in DOMAIN doc.e}
      [] Kind(t) = "map" /\ doc.j = "obj" ->
           UNION {{[m EXCEPT !.doc = JObj([doc.m EXCEPT ![i] = Member(doc.m[i].key, m.doc)]),
                             !.base = JObj([doc.m EXCEPT ![i] = Member(doc.m[i].key, m.base)])] :
                      m \in Mutations(Elem(t), doc.m[i].val, depth + 1, via \cup {"map"})}
                  : i \in DOMAIN doc.m}
      [] Kind(t) = "struct" /\ ~IsCustom(t) /\ doc.j = "obj" ->
           LET keys == {doc.m[i].key : i \in DOMAIN doc.m}
               recase ==
                 UNION {{[doc |-> JObj([doc.m EXCEPT ![i] = Member(key, doc.m[i].val)]),
                          base |-> JObj(SubSeq(doc.m, 1, i - 1)
                                        \o SubSeq(doc.m, i + 1, Len(doc.m))),
                          mut |-> Mutation("case", key, doc.m[i].key, t.name, depth, via)]
                         : key \in CaseVariants(doc.m[i].key) \ keys}
                        : i \in DOMAIN doc.m}
               added ==
                 {[doc |-> JObj(Append(doc.m, Member(key, JNum(1)))),
                   base |-> doc,
                   mut |-> Mutation("added", key, <<>>, t.name, depth, via)]
                  : key \in StrangeKeys \ ResolvedNames(t)}
               inner ==
                 UNION {{[m EXCEPT !.doc = JObj([doc.m EXCEPT ![i] = Member(doc.m[i].key, m.doc)]),
                                  !.base = JObj([doc.m EXCEPT ![i] = Member(doc.m[i].key, m.base)])] :
                           m \in Mutations(FieldTypeOf(t, doc.m[i].key), doc.m[i].val,
                                           depth + 1, via \cup {"field"})}
                        : i \in {i \in DOMAIN doc.m : doc.m[i].key \in ResolvedNames(t)}}
               goNames ==
                 {[doc |-> JObj(Append(doc.m,
                                       Member(Fields(t)[i].name,
                                              CHOOSE val \in Docs(Fields(t)[i].typ, 0, TRUE) : TRUE))),
                   base |-> doc,
                   mut |-> Mutation("member", Fields(t)[i].name, <<>>, t.name, depth, via)]
                  : i \in {i \in DOMAIN Fields(t) :
                              /\ ~Fields(t)[i].anonymous
                              /\ Fields(t)[i].name \notin ResolvedNames(t) \cup keys}}
           IN recase \cup added \cup goNames \cup inner
      [] OTHER -> {}

\* The types of the targets.
TopTypes ==
    {Named(n) : n \in {"Person", "Resident", "Tenant", "Group", "Dict", "Grid",
                       "CustomTime", "Event", "EventP", "Prims", "Loose", "Node", "Extended",
                       "ExtendedP", "Conflict", "Shadow", "ShadowBoth", "Twin",
                       "Dashed", "Plain", "Keyed", "Numbered", "Diamond", "Dup",
                       "Triple", "Deep", "Rec", "Tree", "Self"}}
    \cup {SliceOf(StringT), MapOf(StringT, IntT), SliceOf(Named("Address")),
          MapOf(StringT, Named("Address")), PtrTo(Named("Address")), SliceOf(AnyT),
          PtrTo(Named("CustomTime")), MapOf(Named("Key"), Named("Address")),
          MapOf(IntT, Named("Address"))}

\* A target that has been used before: every part holds something.
RECURSIVE Filled(_, _)
Filled(t, fuel) ==
    CASE Kind(t) = "int" -> IntValue(7)
      [] Kind(t) = "string" -> StringValue("old")
      [] Kind(t) = "interface" -> InterfaceValue(JNum(7))
      [] Kind(t) = "ptr" -> IF fuel = 0 THEN NilPtr ELSE PtrValue(Filled(Elem(t), fuel))
      [] Kind(t) = "slice" ->
           IF fuel = 0 THEN NilSlice ELSE SliceValue(<<Filled(Elem(t), fuel)>>)
      [] Kind(t) = "map" ->
           IF fuel = 0 THEN NilMap
           ELSE MapValue(MapPut(EmptyMap, IF Kind(t.key) = "int" THEN 9 ELSE <<"z">>,
                                Filled(Elem(t), fuel)))
      [] Kind(t) = "array" ->
           [k |-> "array", e |-> [i \in 1..t.len |-> Filled(Elem(t), fuel)]]
      [] Kind(t) = "struct" ->
           [k |-> "struct",
            f |-> [i \in 1..NumField(t) |->
                     Filled(Fields(t)[i].typ, IF fuel = 0 THEN 0 ELSE fuel - 1)],
            got |-> IF IsCustom(t) THEN <<JStr("old")>> ELSE <<>>]

Target(how, t, v) == [how |-> how, t |-> t, v |-> v]
Input(data, target, mut) == [data |-> data, target |-> target, mut |-> mut]

Fresh(t) == Target("pointer", t, Zero(t))
Used(t) == Target("pointer", t, Filled(t, 2))

\* The calls on a target type: a well-typed document, null, an object with
\* the one key "name" or invalid bytes into a fresh or a used target; an
\* altered full document into a fresh target; a target that is no usable
\* pointer.
InputsOf(t) ==
    {Input(doc, tgt, NoMutation) :
        doc \in Docs(t, MaxDepth, FALSE)
                  \cup {JNull, JBad, JObj(<<Member(kName, JStr("x"))>>)},
        tgt \in {Fresh(t), Used(t)}}
    \cup {Input(m.doc, Fresh(t), [m.mut EXCEPT !.base = m.base]) :
             m \in UNION {Mutations(t, doc, 0, {}) : doc \in Docs(t, MaxDepth, TRUE)}}
    \cup {Input(doc, Target(how, t, Zero(t)), NoMutation) :
             doc \in Docs(t, MaxDepth, TRUE) \cup {JNull, JBad},
             how \in {"nil", "value"}}

\* Chains of nested records, intact or with the innermost object altered.
ChainInputs ==
    LET t == Named("Node")
        last == JObj(<<Member(kId, JStr("x"))>>)
    IN UNION {{Input(Chain(n, last), Fresh(t), NoMutation)}
              \cup {Input(Chain(n, m.doc), Fresh(t),
                          [m.mut EXCEPT !.base = Chain(n, m.base),
                                        !.depth = n,
                                        !.via = IF n = 0 THEN {} ELSE {"field", "ptr"}])
                    : m \in Mutations(t, last, 0, {})}
              : n \in 0..MaxChain}

\* The calls the process may make on its target type.
\* Calls on a target whose type is its own element type: the documents are
\* lists of lists, or objects of objects.
SelfInputs(t) ==
    {Input(doc, tgt, NoMutation) :
        doc \in {JNull, JBad, JStr("x"), JNum(1)}
                  \cup (IF Kind(t) = "slice"
                        THEN {JArr(<<>>), JArr(<<JArr(<<>>), JNull>>)}
                        ELSE {JObj(<<>>), JObj(<<Member(<<"a">>, JObj(<<>>))>>)}),
        tgt \in {Fresh(t), Target("value", t, Zero(t))}}

Inputs(t) ==
    IF containsStructOverflows(t) THEN SelfInputs(t)
    ELSE InputsOf(t) \cup (IF t = Named("Node") THEN ChainInputs ELSE {})

(***************************************************************************)
(* The process: it declares a target of some type, builds decoders and     *)
(* decodes documents into targets of that type, one call at a time.        *)
(***************************************************************************)
Options == {WithDisallowUnknownFields(TRUE), WithDisallowUnknownFields(FALSE),
            WithSuggestClosest(TRUE), WithSuggestClosest(FALSE)}

Idle == [op |-> "none"]

\* What the caller holds when a call has returned: the call, and the target
\* and the error after it.
Returned(op, d, in, o, cache) ==
    [op |-> op, d |-> d, data |-> in.data, target |-> in.target, mut |-> in.mut,
     v |-> o.v, err |-> o.err, cached |-> DOMAIN cache]

Init ==
    /\ decoder = NewDecoder(<<>>)
    /\ fieldCache = EmptyMap
    /\ call = Idle
    /\ targetType \in TopTypes
    /\ types = Program(targetType)

\* d := NewDecoder(opts...)
NewDecoderCall ==
    /\ call = Idle
    /\ \E opts \in SeqsUpTo(Options, 2) : decoder' = NewDecoder(opts)
    /\ UNCHANGED <<fieldCache, call, targetType, types>>

\* err := strictjson.Unmarshal(data, v)
UnmarshalCall ==
    /\ call = Idle
    /\ \E in \in Inputs(targetType) :
         \E o \in DecoderUnmarshal(NewDecoder(<<>>), in.data, in.target, fieldCache) :
            /\ call' = Returned("Unmarshal", NewDecoder(<<>>), in, o, fieldCache)
            /\ fieldCache' = o.cache
    /\ UNCHANGED <<decoder, targetType, types>>

\* err := d.Unmarshal(data, v)
DecoderUnmarshalCall ==
    /\ call = Idle
    /\ \E in \in Inputs(targetType) :
         \E o \in DecoderUnmarshal(decoder, in.data, in.target, fieldCache) :
            /\ call' = Returned("Decoder.Unmarshal", decoder, in, o, fieldCache)
            /\ fieldCache' = o.cache
    /\ UNCHANGED <<decoder, targetType, types>>

\* The caller has looked at the result and goes on.
Continue ==
    /\ call # Idle
    /\ call' = Idle
    /\ UNCHANGED <<decoder, fieldCache, targetType, types>>

Next == NewDecoderCall \/ UnmarshalCall \/ DecoderUnmarshalCall \/ Continue

Spec == Init /\ [][Next]_vars

(***************************************************************************)
(* Properties of the decoder.                                              *)
(***************************************************************************)
\* The keys of a raw object, and the bytes the object gives a key (the last
\* member of that key).
KeysOf(data) == {data.m[i].key : i \in DOMAIN data.m}
RawOf(data, key) == parseObject(data).raw[key]

\* A call has returned from a usable target.
Decoded == call.op # "none" /\ call.target.how = "pointer"
IntoFresh == Decoded /\ call.target.v = Zero(call.target.t)
IntoRecord == Decoded /\ Kind(call.target.t) = "struct" /\ ~IsCustom(call.target.t)

\* C1: with the default decoder, a raw object in which exactly one key has
\* had its letter case changed is rejected with an unknown-field error whose
\* key is the altered key, wherever the record sits (top level, nested
\* field, sequence element, map value, behind pointers, depth 8 or more).
\* Stated of the calls that return.
C1_CaseChangedKeyRejected ==
    (Decoded /\ call.d = NewDecoder(<<>>) /\ call.mut.kind = "case"
       /\ call.err # ReflectPanic)
        => (call.err.e = "unknownFieldError" /\ call.err.fieldName = call.mut.key)

\* The names the members of a struct type declare themselves.
DeclaredNames(t) ==
    {LET tagName == parseTag(Fields(t)[i].tag).name
     IN IF tagName = <<>> THEN Fields(t)[i].name ELSE tagName
     : i \in {i \in 1..NumField(t) :
                 /\ ~Fields(t)[i].anonymous
                 /\ Fields(t)[i].exported
                 /\ Fields(t)[i].tag # kDash}}

\* The names two different embedded records of the type both declare.
EmbeddedClash(t) ==
    LET embedded == {i \in 1..NumField(t) :
                       Fields(t)[i].anonymous /\ Kind(Deref(Fields(t)[i].typ)) = "struct"}
    IN UNION {DeclaredNames(Deref(Fields(t)[p[1]].typ))
                 \cap DeclaredNames(Deref(Fields(t)[p[2]].typ))
              : p \in {p \in embedded \X embedded : p[1] # p[2]}}

\* The raw object has each resolved name of the record exactly once, with a
\* value, and nothing else.
ExactKeys(data, t) ==
    /\ data.j = "obj"
    /\ KeysOf(data) = ResolvedNames(t)
    /\ Len(data.m) = Cardinality(ResolvedNames(t))
    /\ \A i \in DOMAIN data.m : data.m[i].val # JNull

\* C2: a raw object whose keys are exactly the resolved names of the record
\* decodes into a fresh target with success, and every field ends with the
\* value the standard decode of the same input produces. Stated of the
\* inputs the standard decode accepts, of the record types without a name
\* conflict and of the calls that return.
C2_ExactKeysDecodeAsStandard ==
    (IntoFresh /\ IntoRecord /\ call.mut.kind = "none"
       /\ call.err # ReflectPanic
       /\ EmbeddedClash(call.target.t) = {}
       /\ ExactKeys(call.data, call.target.t)
       /\ stdUnmarshal(call.data, Zero(call.target.t), call.target.t).err = NoError)
        => /\ call.err = NoError
           /\ call.v = stdUnmarshal(call.data, Zero(call.target.t), call.target.t).v

\* C3: a mis-cased or unknown key inside an element of a fixed-size array of
\* records makes the decode fail with an unknown-field error, as it does for
\* a slice.
C3_ArrayElementsValidated ==
    (Decoded /\ call.d.DisallowUnknownFields
       /\ call.mut.kind \in {"case", "added"} /\ "array" \in call.mut.via)
        => call.err.e = "unknownFieldError"

\* C4, as stated: a record type with two embedded records at the same level
\* that declare the same name fails every decode of a raw object with the
\* conflict error naming that key, and nothing is written.
C4_ClashAlwaysConflicts ==
    (IntoRecord /\ call.data.j = "obj" /\ EmbeddedClash(call.target.t) # {})
        => /\ call.err.e = "fieldConflictError"
           /\ call.err.fieldName \in EmbeddedClash(call.target.t)
           /\ call.v = call.target.v

\* C4, amended: the same, provided the record type does not declare the
\* colliding name itself (a shallower declaration shadows both).
C4_UnshadowedClashConflicts ==
    (IntoRecord /\ call.data.j = "obj"
       /\ EmbeddedClash(call.target.t) \ DeclaredNames(call.target.t) # {})
        => /\ call.err.e = "fieldConflictError"
           /\ call.err.fieldName \in EmbeddedClash(call.target.t) \ DeclaredNames(call.target.t)
           /\ call.v = call.target.v

\* A conflicted type was handed, on a later decode (its descriptor is in the
\* cache), an object with the colliding key, into a target holding values,
\* and answered with the conflict.
C4_Witness ==
    /\ IntoRecord
    /\ call.target.t = Named("Conflict")
    /\ Named("Conflict") \in call.cached
    /\ call.target.v # Zero(call.target.t)
    /\ call.data.j = "obj"
    /\ kName \in KeysOf(call.data)
    /\ call.err = newFieldConflictError(kName)

\* A second witness of C4: the unknown key of the object is not reported.
C4_WitnessUnknownKey ==
    /\ IntoRecord
    /\ call.target.t = Named("Conflict")
    /\ call.mut.kind = "added"
    /\ call.err.e = "fieldConflictError"

\* The declarations of a name in a record type (through embedded records),
\* the shallowest of them, and the names with one shallowest declaration
\* and deeper ones besides.
Declarations(t, n) == {c \in StdCandidates(t, <<>>, {t.name}) : c.name = n}
Shallowest(t, n) ==
    {c \in Declarations(t, n) :
        \A c2 \in Declarations(t, n) : Len(c.index) <= Len(c2.index)}
Shadowed(t) ==
    {n \in {c.name : c \in StdCandidates(t, <<>>, {t.name})} :
        /\ Cardinality(Shallowest(t, n)) = 1
        /\ Declarations(t, n) # Shallowest(t, n)}

\* C5: a name claimed at a shallower embedding level and declared again at
\* a deeper one resolves to the shallower member, no conflict is recorded
\* for it, and decoding an object with that key writes the shallower field
\* and leaves the deeper ones as they were.
C5_ShallowerMemberShadows ==
    /\ \A t \in DOMAIN fieldCache : \A n \in Shadowed(t) :
          LET top == CHOOSE c \in Shallowest(t, n) : TRUE
          IN /\ n \in DOMAIN fieldCache[t].fields
             /\ fieldCache[t].fields[n].fieldIndex = top.index
             /\ fieldCache[t].conflict # n
    /\ (IntoRecord /\ call.data.j = "obj" /\ call.err = NoError) =>
          \A n \in Shadowed(call.target.t) \cap KeysOf(call.data) :
             RawOf(call.data, n) # JNull =>
               LET t == call.target.t
                   top == CHOOSE c \in Shallowest(t, n) : TRUE
               IN /\ ReadByIndex(call.v, t, top.index)
                       = stdUnmarshal(RawOf(call.data, n),
                                      ReadByIndex(call.target.v, t, top.index),
                                      top.typ).v
                  /\ \A c \in Declarations(t, n) \ {top} :
                        ReadByIndex(call.v, t, c.index)
                          = ReadByIndex(call.target.v, t, c.index)

\* The key "name" was decoded into a record that declares it and embeds a
\* record declaring it too: the own member is written, the embedded kept.
C5_Witness ==
    /\ IntoRecord
    /\ call.target.t = Named("Shadow")
    /\ call.target = Used(Named("Shadow"))
    /\ call.data = JObj(<<Member(kName, JStr("x"))>>)
    /\ call.err = NoError
    /\ call.v.f[1] = StringValue("x")
    /\ call.v.f[2].f[1] = StringValue("old")
    /\ Named("Shadow") \in DOMAIN fieldCache

\* A type that reaches, through pointers, sequences and maps, no record type
\* without a custom decoder.
RECURSIVE PlainFrom(_, _)
PlainFrom(t, seen) ==
    CASE t \in seen -> TRUE
      [] Kind(t) \in {"ptr", "slice", "array", "map"} -> PlainFrom(Elem(t), seen \cup {t})
      [] Kind(t) = "struct" -> IsCustom(t)
      [] OTHER -> TRUE

PlainType(t) == PlainFrom(t, {})

\* C6: a decode step handed the null token reports success and leaves its
\* target as it was: at the top level, for a field of a record, for an
\* element of a sequence and for a value of a map.
C6_NullLeavesTargetUntouched ==
    Decoded =>
      LET t == call.target.t
      IN /\ call.data = JNull => (call.err = NoError /\ call.v = call.target.v)
         /\ (IntoRecord /\ call.data.j = "obj") =>
               \A n \in KeysOf(call.data) \cap ResolvedNames(t) :
                  RawOf(call.data, n) = JNull =>
                     ReadByIndex(call.v, t, FieldOf(t, n).fieldIndex)
                       = ReadByIndex(call.target.v, t, FieldOf(t, n).fieldIndex)
         /\ (Kind(t) = "slice" /\ ~PlainType(Elem(t)) /\ call.data.j = "arr"
               /\ call.err = NoError) =>
               \A i \in DOMAIN call.data.e :
                  call.data.e[i] = JNull => call.v.e[i] = Zero(Elem(t))
         /\ (Kind(t) = "map" /\ ~PlainType(Elem(t)) /\ call.data.j = "obj"
               /\ call.err = NoError) =>
               \A key \in KeysOf(call.data) :
                  RawOf(call.data, key) = JNull => call.v.m[key] = Zero(Elem(t))

\* A record with a name and a null for its pointer member was decoded into
\* a target that held a pointer: the name is written, the pointer kept.
C6_Witness ==
    /\ IntoRecord
    /\ call.target.t = Named("Tenant")
    /\ call.target = Used(Named("Tenant"))
    /\ call.data = JObj(<<Member(kName, JStr("x")), Member(kAddress, JNull)>>)
    /\ call.err = NoError
    /\ call.v.f[1] = StringValue("x")
    /\ call.v.f[2] = call.target.v.f[2]
    /\ ~call.v.f[2].nil

\* The bytes the custom decoder of the member "date" was called with.
DateGot(v) ==
    IF v.f[2].k = "ptr"
    THEN (IF v.f[2].nil THEN <<>> ELSE v.f[2].elem.got)
    ELSE v.f[2].got

\* C7: a member whose type has a custom decode routine is handed the raw
\* bytes of its value as they are, and no key of those bytes is checked,
\* the keys of the enclosing record being the record's own.
C7_CustomDecoderGetsRawBytes ==
    (IntoFresh /\ call.target.t \in {Named("Event"), Named("EventP")}
       /\ call.data.j = "obj"
       /\ KeysOf(call.data) \subseteq ResolvedNames(call.target.t)
       /\ kDate \in KeysOf(call.data)
       /\ RawOf(call.data, kDate) # JNull)
        => /\ DateGot(call.v) = <<RawOf(call.data, kDate)>>
           /\ call.err.e # "unknownFieldError"
           /\ call.err \in {NoError, CustomError}

\* C8: a sequence or map whose element type reaches no record without a
\* custom decoder is decoded by the standard decode alone, whatever the
\* decoder's switches: the value and the error are the standard decode's,
\* at the top level and as a member of a record.
C8_PlainElementsTakeStandardPath ==
    Decoded =>
      LET t == call.target.t
      IN /\ (Kind(t) \in {"slice", "map"} /\ PlainType(Elem(t))
               /\ call.data # JNull) =>
               [v |-> call.v, err |-> call.err]
                 = stdUnmarshal(call.data, call.target.v, t)
         /\ (IntoRecord /\ call.data.j = "obj" /\ call.err = NoError) =>
               \A n \in KeysOf(call.data) \cap ResolvedNames(t) :
                  (/\ Kind(FieldTypeOf(t, n)) \in {"slice", "map"}
                   /\ PlainType(Elem(FieldTypeOf(t, n)))
                   /\ RawOf(call.data, n) # JNull) =>
                     ReadByIndex(call.v, t, FieldOf(t, n).fieldIndex)
                       = stdUnmarshal(RawOf(call.data, n),
                                      ReadByIndex(call.target.v, t, FieldOf(t, n).fieldIndex),
                                      FieldTypeOf(t, n)).v

\* The same, of the targets whose type is not its own element type.
C8_ApartFromSelfElements ==
    (Decoded /\ containsStructOverflows(call.target.t))
       \/ C8_PlainElementsTakeStandardPath

\* A list of strings, one of them null, was decoded over a list that held a
\* string, by a decoder that rejects unknown keys: the old string stays.
C8_Witness ==
    /\ Decoded
    /\ call.target.t = SliceOf(StringT)
    /\ call.target.v = SliceValue(<<StringValue("old")>>)
    /\ call.data = JArr(<<JNull, JStr("x")>>)
    /\ call.d.DisallowUnknownFields
    /\ call.err = NoError
    /\ call.v = SliceValue(<<StringValue("old"), StringValue("x")>>)

\* C9: with the rejection of unknown keys switched off, a key that is not
\* one of the record's resolved names (a changed case included) is skipped
\* without error and writes nothing, at every depth, while the other keys
\* are decoded: the call ends as the call on the object without that key.
\* Stated of the calls that return.
C9_UnknownKeysSkippedWhenAllowed ==
    (Decoded /\ ~call.d.DisallowUnknownFields /\ call.mut.kind \in {"case", "added"}
       /\ call.err # ReflectPanic)
        => /\ call.err.e # "unknownFieldError"
           /\ \E o \in DecoderUnmarshal(call.d, call.mut.base, call.target, EmptyMap) :
                 o.v = call.v /\ o.err = call.err

\* Every key of a document.
RECURSIVE AllKeys(_)
AllKeys(data) ==
    CASE data.j = "obj" ->
           KeysOf(data) \cup UNION {AllKeys(data.m[i].val) : i \in DOMAIN data.m}
      [] data.j = "arr" -> UNION {AllKeys(data.e[i]) : i \in DOMAIN data.e}
      [] OTHER -> {}

C12_InvalidTargetRejectedFirst ==
    (call.op # "none" /\ call.target.how # "pointer") =>
       /\ call.err = newNonPointerError
       /\ call.err.e = "UnmarshalError"
       /\ Error(call.err) = <<errPrefixNonPointer>>
       /\ call.v = call.target.v
       /\ DOMAIN fieldCache = call.cached

\* A nil pointer to a record was handed a well-formed object.
C12_Witness ==
    /\ call.op = "Decoder.Unmarshal"
    /\ call.target.how = "nil"
    /\ Kind(call.target.t) = "struct"
    /\ call.data.j = "obj"
    /\ call.data.m # <<>>
    /\ call.err = newNonPointerError

\* A value that is no pointer was handed malformed bytes.
C12_WitnessMalformed ==
    /\ call.op = "Unmarshal"
    /\ call.target.how = "value"
    /\ call.data = JBad
    /\ call.err = newNonPointerError

\* The member of a record type at an index path, the key a member is
\* expected under, and whether a member is expected under a key at all.
RECURSIVE MemberAt(_, _)
MemberAt(t, index) ==
    IF Len(index) = 1 THEN Fields(Deref(t))[Head(index)]
    ELSE MemberAt(Fields(Deref(t))[Head(index)].typ, Tail(index))

ExpectedKey(f) == IF parseTag(f.tag).name # <<>> THEN parseTag(f.tag).name ELSE f.name

Keyed(f) == ~f.anonymous /\ f.exported /\ f.tag # kDash

\* C14: in a descriptor without conflict every key is the tag name, or
\* without one the declared name, of the exported non-embedded member it
\* locates, every such member of the record itself that is not tagged "-"
\* has its key, and no key locates a "-"-tagged or an unexported member;
\* and the default decoder rejects a document in which some record has a
\* member under the Go name of a member whose key is another or which has
\* no key, as an unknown field of that name.
C14_KeysComeFromTagsOrNames ==
    /\ \A t \in DOMAIN fieldCache :
          fieldCache[t].conflict = <<>> =>
             /\ \A key \in DOMAIN fieldCache[t].fields :
                   /\ Keyed(MemberAt(t, fieldCache[t].fields[key].fieldIndex))
                   /\ ExpectedKey(MemberAt(t, fieldCache[t].fields[key].fieldIndex)) = key
             /\ \A i \in DOMAIN Fields(t) :
                   Keyed(Fields(t)[i]) =>
                      /\ ExpectedKey(Fields(t)[i]) \in DOMAIN fieldCache[t].fields
                      /\ fieldCache[t].fields[ExpectedKey(Fields(t)[i])].fieldIndex = <<i>>
    /\ (Decoded /\ call.d = NewDecoder(<<>>) /\ call.mut.kind = "member") =>
          /\ call.err.e = "unknownFieldError"
          /\ call.err.fieldName = call.mut.key

\* The same, for documents whose altered record is the target itself.
C14_AtTheTarget ==
    /\ \A t \in DOMAIN fieldCache :
          fieldCache[t].conflict = <<>> =>
             /\ \A key \in DOMAIN fieldCache[t].fields :
                   /\ Keyed(MemberAt(t, fieldCache[t].fields[key].fieldIndex))
                   /\ ExpectedKey(MemberAt(t, fieldCache[t].fields[key].fieldIndex)) = key
             /\ \A i \in DOMAIN Fields(t) :
                   Keyed(Fields(t)[i]) =>
                      /\ ExpectedKey(Fields(t)[i]) \in DOMAIN fieldCache[t].fields
                      /\ fieldCache[t].fields[ExpectedKey(Fields(t)[i])].fieldIndex = <<i>>
    /\ (Decoded /\ call.d = NewDecoder(<<>>) /\ call.mut.kind = "member"
          /\ call.mut.depth = 0 /\ call.mut.via \subseteq {"ptr"}) =>
          /\ call.err.e = "unknownFieldError"
          /\ call.err.fieldName = call.mut.key

\* C15: a target whose type is a pointer to a type with a custom decode
\* routine is delegated to the routine: decoded from bytes other than null
\* into a fresh target, the pointer (the target itself, or the member
\* "date" of a record) is allocated and the pointed value's routine was
\* called once, with the raw bytes; the strict walker reports no error of
\* its own for these bytes.
C15_PointerToCustomIsDelegated ==
    /\ (IntoFresh /\ call.target.t = PtrTo(Named("CustomTime"))
          /\ call.data \notin {JNull, JBad}) =>
          /\ ~call.v.nil
          /\ call.v.elem.got = <<call.data>>
          /\ call.err \in {NoError, CustomError}
    /\ (IntoFresh /\ call.target.t = Named("EventP")
          /\ call.data.j = "obj"
          /\ KeysOf(call.data) \subseteq ResolvedNames(call.target.t)
          /\ kDate \in KeysOf(call.data)
          /\ RawOf(call.data, kDate) # JNull) =>
          /\ ~call.v.f[2].nil
          /\ call.v.f[2].elem.got = <<RawOf(call.data, kDate)>>
          /\ call.err \in {NoError, CustomError}

\* The names of a record type whose shallowest declarations are several.
Duplicated(t) ==
    {n \in {c.name : c \in StdCandidates(t, <<>>, {t.name})} :
        Cardinality(Shallowest(t, n)) > 1}

\* C16: in every descriptor built, a name whose shallowest declarations are
\* two or more members at one depth (of one record, of several embedded
\* records, or of one embedded record reached by several paths) resolves
\* to none of them, and the conflict marker is set.
C16_SameDepthDuplicatesConflict ==
    \A t \in DOMAIN fieldCache :
       \A n \in Duplicated(t) :
          /\ fieldCache[t].conflict # <<>>
          /\ n \in DOMAIN fieldCache[t].fields =>
                \A c \in Shallowest(t, n) : fieldCache[t].fields[n].fieldIndex # c.index

\* The same, of the members that are not reached through the same embedded
\* record twice.
C16_ApartFromDiamonds ==
    \A t \in DOMAIN fieldCache :
       \A n \in Duplicated(t) :
          (\A c1, c2 \in Shallowest(t, n) :
              MemberAt(t, c1.index) = MemberAt(t, c2.index) => c1 = c2) =>
             /\ fieldCache[t].conflict # <<>>
             /\ n \in DOMAIN fieldCache[t].fields =>
                   \A c \in Shallowest(t, n) : fieldCache[t].fields[n].fieldIndex # c.index

\* The entries of a list, as a set.
Range(q) == {q[i] : i \in DOMAIN q}

\* C17: in every descriptor built, each key of the mapping has one
\* location, recorded under that key; the list of all names holds the keys
\* of the mapping, each once; and the name recorded as the conflict is no
\* key of the mapping and no entry of the list.
C17_DescriptorIsConsistent ==
    \A t \in DOMAIN fieldCache :
       /\ \A key \in DOMAIN fieldCache[t].fields :
             fieldCache[t].fields[key].jsonName = key
       /\ Range(fieldCache[t].allNames) = DOMAIN fieldCache[t].fields
       /\ Len(fieldCache[t].allNames) = Cardinality(DOMAIN fieldCache[t].fields)
       /\ fieldCache[t].conflict # <<>> =>
             /\ fieldCache[t].conflict \notin DOMAIN fieldCache[t].fields
             /\ fieldCache[t].conflict \notin Range(fieldCache[t].allNames)

\* The same, without the last part.
C17_ListHoldsTheKeys ==
    \A t \in DOMAIN fieldCache :
       /\ \A key \in DOMAIN fieldCache[t].fields :
             fieldCache[t].fields[key].jsonName = key
       /\ Range(fieldCache[t].allNames) = DOMAIN fieldCache[t].fields
       /\ Len(fieldCache[t].allNames) = Cardinality(DOMAIN fieldCache[t].fields)

\* A location resolved before another: at a shallower level, or at the same
\* level and declared earlier.
ResolvedBefore(a, b) ==
    \/ Len(a.fieldIndex) < Len(b.fieldIndex)
    \/ Len(a.fieldIndex) = Len(b.fieldIndex) /\ LexLess(a.fieldIndex, b.fieldIndex)

\* C18: in every descriptor built, the list of all names is in the order in
\* which the names were resolved; and the suggestion of an unknown-field
\* error is the one every decode of the same bytes gives for that key,
\* whatever descriptor it builds.
C18_AllNamesInResolutionOrder ==
    /\ \A t \in DOMAIN fieldCache :
          \A i, j \in DOMAIN fieldCache[t].allNames :
             i < j => ResolvedBefore(fieldCache[t].fields[fieldCache[t].allNames[i]],
                                     fieldCache[t].fields[fieldCache[t].allNames[j]])
    /\ (Decoded /\ call.d.SuggestClosest /\ call.err.e = "unknownFieldError") =>
          \A o \in DecoderUnmarshal(call.d, call.data, call.target, EmptyMap) :
             (o.err.e = "unknownFieldError" /\ o.err.fieldName = call.err.fieldName)
                => o.err.suggestion = call.err.suggestion

\* The second part alone.
C18_SameSuggestionEveryRun ==
    (Decoded /\ call.d.SuggestClosest /\ call.err.e = "unknownFieldError") =>
       \A o \in DecoderUnmarshal(call.d, call.data, call.target, EmptyMap) :
          (o.err.e = "unknownFieldError" /\ o.err.fieldName = call.err.fieldName)
             => o.err.suggestion = call.err.suggestion

\* The member of an object that an alteration inside it changed.
Altered(data, base) == CHOOSE i \in DOMAIN data.m : data.m[i] # base.m[i]

\* v is what a decode of data into old may leave when it stops at the
\* record that holds the altered key: that record is as it was, a pointer
\* on the way is allocated, a slice on the way is as it was, a map on the
\* way holds some of the other entries, and every other field of a record
\* on the way is as it was or as the decode of the unaltered bytes (good)
\* makes it.
RECURSIVE WrittenUpTo(_, _, _, _, _, _)
WrittenUpTo(v, old, good, t, data, base) ==
    CASE Kind(t) = "ptr" ->
           /\ ~v.nil
           /\ ~good.nil
           /\ WrittenUpTo(v.elem, IF old.nil THEN Zero(Elem(t)) ELSE old.elem,
                          good.elem, Elem(t), data, base)
      [] Kind(t) = "slice" -> v = old
      [] Kind(t) = "map" ->
           /\ ~v.nil
           /\ data.m[Altered(data, base)].key \notin DOMAIN v.m
           /\ \A key \in DOMAIN v.m : key \in DOMAIN good.m /\ v.m[key] = good.m[key]
      [] Kind(t) = "struct" ->
           IF KeysOf(data) # KeysOf(base) THEN v = old
           ELSE LET index == FieldOf(t, data.m[Altered(data, base)].key).fieldIndex
                IN /\ Len(index) = 1
                   /\ v.got = old.got
                   /\ \A j \in DOMAIN v.f \ {index[1]} : v.f[j] \in {old.f[j], good.f[j]}
                   /\ WrittenUpTo(v.f[index[1]], old.f[index[1]], good.f[index[1]],
                                  Fields(t)[index[1]].typ,
                                  data.m[Altered(data, base)].val,
                                  base.m[Altered(data, base)].val)
      [] OTHER -> FALSE

\* The outcomes of decoding the unaltered bytes, and those of decoding the
\* altered bytes, with the cache as the call left it.
BaseOutcomes == DecoderUnmarshal(call.d, call.mut.base, call.target, fieldCache)
Outcomes == DecoderUnmarshal(call.d, call.data, call.target, fieldCache)

\* A decode that stopped at an unknown key of an altered document; the
\* same, the key being in a record inside the record that is the target.
StoppedAtUnknown ==
    /\ Decoded
    /\ call.d.DisallowUnknownFields
    /\ call.mut.kind # "none"
    /\ call.err.e = "unknownFieldError"
StoppedInside ==
    /\ StoppedAtUnknown
    /\ IntoRecord
    /\ KeysOf(call.data) = KeysOf(call.mut.base)

AlteredField ==
    FieldOf(call.target.t,
            call.data.m[Altered(call.data, call.mut.base)].key).fieldIndex[1]

\* C19: when a decode stops at an unknown key of an altered document whose
\* unaltered bytes decode, the record with that key has no field written,
\* whatever the order of the keys; the fields of the enclosing records are
\* as they were or completely written; and in some order of the keys every
\* other field of the target was written before the failure and is kept,
\* and in some order none was and none is written after it.
C19_UnknownKeyLeavesItsRecordUnwritten ==
    StoppedAtUnknown =>
       \A bs \in {BaseOutcomes} :
          (\A b \in bs : b.err = NoError) =>
             \A good \in {(CHOOSE b \in bs : TRUE).v} :
                /\ WrittenUpTo(call.v, call.target.v, good, call.target.t,
                               call.data, call.mut.base)
                /\ StoppedInside =>
                      \A os \in {Outcomes} :
                         /\ \E o \in os :
                               /\ o.err = call.err
                               /\ \A j \in DOMAIN o.v.f \ {AlteredField} :
                                     o.v.f[j] = good.f[j]
                         /\ \E o \in os :
                               /\ o.err = call.err
                               /\ \A j \in DOMAIN o.v.f \ {AlteredField} :
                                     o.v.f[j] = call.target.v.f[j]

\* A record with two members was decoded from an object whose second member
\* is a record with an unknown key: the first member was written and is
\* kept, and the inner record has no field written.
C19_Witness ==
    /\ StoppedInside
    /\ \A b \in BaseOutcomes : b.err = NoError
    /\ call.target.t = Named("Tenant")
    /\ KeysOf(call.data) = {kName, kAddress}
    /\ call.mut.kind = "added"
    /\ call.v.f[1] = StringValue("x")
    /\ call.v.f[2] = PtrValue(Zero(Named("Address")))

\* The same, the inner record having been reached first.
C19_WitnessFirst ==
    /\ StoppedInside
    /\ \A b \in BaseOutcomes : b.err = NoError
    /\ call.target.t = Named("Tenant")
    /\ KeysOf(call.data) = {kName, kAddress}
    /\ call.mut.kind = "added"
    /\ call.v.f[1] = StringValue("")
    /\ call.v.f[2] = PtrValue(Zero(Named("Address")))

\* C21: every decode call returns, with success or an error, whatever the
\* type of the target: the run-time never ends the process for a stack
\* that grew without end.
C21_EveryDecodeReturns ==
    call.op \in {"Unmarshal", "Decoder.Unmarshal"} => call.err # StackOverflow

\* The same, of the targets whose type is not its own element type: among
\* them the records that hold or embed a pointer to themselves.
C21_ApartFromSelfElements ==
    (call.op \in {"Unmarshal", "Decoder.Unmarshal"}
       /\ ~containsStructOverflows(call.target.t)) => call.err # StackOverflow

\* A call on a map whose value type needs strict validation, with bytes that
\* are a JSON object.
StrictMapCall ==
    /\ Decoded
    /\ call.target.t.kind = "map"
    /\ containsStruct(Elem(call.target.t))
    /\ call.data.j = "obj"

\* The key of the map's key type a raw key stands for: the string itself, or
\* the integer it spells.
ConvertedKey(t, key) == IF Kind(t.key) = "int" THEN ParseInt(key) ELSE key

\* The call returned, and if with success, the map is allocated and holds,
\* besides what it held before, one entry per raw key: under the converted
\* key, the value a decode of the raw value into a zero value gives.
EntriesInserted ==
    LET t == call.target.t
    IN /\ call.err # ReflectPanic
       /\ call.err = NoError =>
            /\ ~call.v.nil
            /\ DOMAIN call.v.m =
                 DOMAIN call.target.v.m
                   \cup {ConvertedKey(t, key) : key \in KeysOf(call.data)}
            /\ \A key \in KeysOf(call.data) :
                 \E o \in unmarshalValue(call.d, RawOf(call.data, key),
                                         Zero(Elem(t)), Elem(t), fieldCache) :
                    o.err = NoError /\ o.v = call.v.m[ConvertedKey(t, key)]

\* C22: a decode of a JSON object into a map whose value type needs strict
\* validation returns normally, whatever the key type of the map (string,
\* named string, integer); on success the map is allocated and holds exactly
\* one entry per raw key, under the raw key converted to the key type, with
\* the raw value decoded into a freshly zeroed value.
C22_EveryRawEntryIsInserted == StrictMapCall => EntriesInserted

\* The same, of the maps whose key type is string itself.
C22_WithStringKeys ==
    (StrictMapCall /\ call.target.t.key = StringT) => EntriesInserted

\* A call of that kind that succeeded with two raw keys, into a nil map.
C22_StringKeysReached ==
    /\ StrictMapCall /\ call.target.t.key = StringT
    /\ call.target.v.nil /\ call.err = NoError
    /\ Cardinality(KeysOf(call.data)) = 2

\* C13: when a decode into a fresh zero target succeeds, every decode of the
\* same bytes into a fresh zero target of that type by a decoder with the
\* same switches and no descriptor cached succeeds with the same value, in
\* whatever order the keys of the raw objects are visited; the call itself
\* found the descriptors cached or not.
C13_DecodeIsDeterministic ==
    (IntoFresh /\ call.err = NoError) =>
       \A o \in DecoderUnmarshal(call.d, call.data, call.target, EmptyMap) :
          o.err = NoError /\ o.v = call.v

\* A record with an embedded pointer was decoded from an object with two
\* keys of the embedded record and one of its own, its descriptor cached.
C13_Witness ==
    /\ IntoFresh
    /\ call.target.t = Named("ExtendedP")
    /\ call.target.t \in call.cached
    /\ call.data.j = "obj"
    /\ KeysOf(call.data) = {kId, kName, kExtra}
    /\ call.err = NoError
    /\ call.v # call.target.v

(***************************************************************************)
(* The suggestion search on its own: findSuggestion applied to any key and *)
(* any list of known names over a small alphabet.                          *)
(***************************************************************************)
\* Longest key or name, and most known names.
MaxWord == 3
MaxNames == 2

Letters == {"a", "A", "b"}
Words == SeqsUpTo(Letters, MaxWord)

SuggestInit ==
    /\ decoder = NewDecoder(<<>>)
    /\ fieldCache = EmptyMap
    /\ call = Idle
    /\ targetType = StringT
    /\ types = Program(StringT)

\* suggestion := findSuggestion(unknown, knownNames)
FindSuggestionCall ==
    /\ call = Idle
    /\ \E unknown \in Words, knownNames \in SeqsUpTo(Words, MaxNames) :
          call' = [op |-> "findSuggestion", unknown |-> unknown,
                   knownNames |-> knownNames,
                   suggestion |-> findSuggestion(unknown, knownNames)]
    /\ UNCHANGED <<decoder, fieldCache, targetType, types>>

SuggestNext == FindSuggestionCall \/ Continue

SuggestSpec == SuggestInit /\ [][SuggestNext]_vars

\* The edit distance by its recurrence: insertion, deletion and substitution
\* cost 1 each.
RECURSIVE EditDistance(_, _)
EditDistance(s1, s2) ==
    IF s1 = <<>> THEN Len(s2)
    ELSE IF s2 = <<>> THEN Len(s1)
    ELSE LET del == EditDistance(Tail(s1), s2) + 1
             ins == EditDistance(s1, Tail(s2)) + 1
             sub == EditDistance(Tail(s1), Tail(s2))
                      + (IF Head(s1) = Head(s2) THEN 0 ELSE 1)
         IN IF del <= ins /\ del <= sub THEN del
            ELSE IF ins <= sub THEN ins ELSE sub

\* Two strings are equal ignoring the case of their letters.
SameIgnoringCase(s1, s2) ==
    /\ Len(s1) = Len(s2)
    /\ \A i \in DOMAIN s1 :
          \/ s1[i] = s2[i]
          \/ \E k \in DOMAIN Lowers : {s1[i], s2[i]} = {Lowers[k], Uppers[k]}

Searched == call.op = "findSuggestion"

\* C11: findSuggestion returns the first known name (in list order) equal to
\* the key ignoring case, if there is one, also when an earlier name is
\* within edit distance 2; otherwise the first known name whose edit distance
\* to the key is at most 2; otherwise the empty string.
C11_SuggestionIsFirstMatch ==
    Searched =>
      LET names == call.knownNames
          same == {i \in DOMAIN names : SameIgnoringCase(names[i], call.unknown)}
          near == {i \in DOMAIN names : EditDistance(call.unknown, names[i]) <= 2}
      IN IF same # {}
         THEN \E i \in same : /\ \A j \in same : i <= j
                              /\ call.suggestion = names[i]
         ELSE IF near # {}
         THEN \E i \in near : /\ \A j \in near : i <= j
                              /\ call.suggestion = names[i]
         ELSE call.suggestion = <<>>

\* The name equal ignoring case comes second, after a name within edit
\* distance 2 that is not equal ignoring case, and is the suggestion.
C11_Witness ==
    /\ Searched
    /\ Len(call.knownNames) = 2
    /\ ~SameIgnoringCase(call.knownNames[1], call.unknown)
    /\ EditDistance(call.unknown, call.knownNames[1]) <= 2
    /\ SameIgnoringCase(call.knownNames[2], call.unknown)
    /\ call.knownNames[2] # call.unknown
    /\ call.suggestion = call.knownNames[2]

\* No name is near enough: no suggestion, of a list that is not empty.
C11_WitnessNone ==
    /\ Searched
    /\ call.knownNames # <<>>
    /\ call.unknown # <<>>
    /\ call.suggestion = <<>>

(***************************************************************************)
(* getStructFields called by several goroutines at once. fieldCache is a   *)
(* sync.Map: Load and Store are atomic, and what a goroutine does between  *)
(* them touches only what it holds itself. call holds, for each goroutine, *)
(* the frame of its call.                                                  *)
(***************************************************************************)
MaxProcs == 2

Procs == 1..MaxProcs

\* The record type the goroutines decode into: that of the target, if any.
RecordTypes ==
    IF Kind(Deref(targetType)) = "struct" THEN {Deref(targetType)} ELSE {}

\* The descriptor buildStructFields starts from.
NewStructFields == [fields |-> EmptyMap, allNames |-> <<>>, conflict |-> <<>>]

\* A frame of getStructFields: where the goroutine is, the type, the
\* descriptor it holds, whether Load found it, and what was returned.
Frame(pc, t, sf, path, ret) == [pc |-> pc, t |-> t, sf |-> sf, path |-> path, ret |-> ret]
NoFrame ==
    Frame("idle", IntT, NewStructFields, "none", [sf |-> "nil", err |-> NoError])

\* fieldCache.Store(t, sf), with the descriptor not yet filled in.
StoreEarly(cache, t, sf) == MapPut(cache, t, NewStructFields)

\* fieldCache.Store(t, sf)
Store(cache, t, sf) == MapPut(cache, t, sf)

\* What getStructFields returns for the descriptor it holds.
Result(sf) ==
    IF sf.conflict # <<>>
    THEN [sf |-> "nil", err |-> newFieldConflictError(sf.conflict)]
    ELSE [sf |-> sf, err |-> NoError]

ConcInit ==
    /\ decoder = NewDecoder(<<>>)
    /\ fieldCache = EmptyMap
    /\ call = [op |-> "getStructFields", frames |-> [g \in Procs |-> NoFrame]]
    /\ targetType \in TopTypes
    /\ types = Program(targetType)

SetFrame(g, f) == [call EXCEPT !.frames = [h \in Procs |-> IF h = g THEN f ELSE call.frames[h]]]

\* A goroutine calls getStructFields(t).
GetCall(g) ==
    /\ call.frames[g].pc = "idle"
    /\ \E t \in RecordTypes :
          call' = SetFrame(g, Frame("load", t, NewStructFields, "none", NoFrame.ret))
    /\ UNCHANGED <<decoder, fieldCache, targetType, types>>

\* cached, ok := fieldCache.Load(t)
GetLoad(g) ==
    /\ call.frames[g].pc = "load"
    /\ call' = SetFrame(g,
                  IF call.frames[g].t \in DOMAIN fieldCache
                  THEN [call.frames[g] EXCEPT !.pc = "return", !.path = "hit",
                                              !.sf = fieldCache[call.frames[g].t]]
                  ELSE [call.frames[g] EXCEPT !.pc = "build", !.path = "miss"])
    /\ UNCHANGED <<decoder, fieldCache, targetType, types>>

\* sf := buildStructFields(t)
GetBuild(g) ==
    /\ call.frames[g].pc = "build"
    /\ \E sf \in buildStructFields(call.frames[g].t) :
          call' = SetFrame(g, [call.frames[g] EXCEPT !.pc = "store", !.sf = sf])
    /\ UNCHANGED <<decoder, fieldCache, targetType, types>>

\* fieldCache.Store(t, sf)
GetStore(g) ==
    /\ call.frames[g].pc = "store"
    /\ fieldCache' = Store(fieldCache, call.frames[g].t, call.frames[g].sf)
    /\ call' = SetFrame(g, [call.frames[g] EXCEPT !.pc = "return"])
    /\ UNCHANGED <<decoder, targetType, types>>

\* The test of sf.conflict and the return, on either path.
GetReturn(g) ==
    /\ call.frames[g].pc = "return"
    /\ call' = SetFrame(g, [call.frames[g] EXCEPT !.pc = "done",
                                                  !.ret = Result(call.frames[g].sf)])
    /\ UNCHANGED <<decoder, fieldCache, targetType, types>>

\* The caller has used what was returned; the goroutine may call again.
GetDone(g) ==
    /\ call.frames[g].pc = "done"
    /\ call' = SetFrame(g, NoFrame)
    /\ UNCHANGED <<decoder, fieldCache, targetType, types>>

ConcNext ==
    \E g \in Procs :
       GetCall(g) \/ GetLoad(g) \/ GetBuild(g) \/ GetStore(g) \/ GetReturn(g) \/ GetDone(g)

ConcSpec == ConcInit /\ [][ConcNext]_vars

\* The descriptors observed: those the calls hold and those in the cache.
Observed ==
    {[t |-> call.frames[g].t, sf |-> call.frames[g].sf] :
        g \in {g \in Procs : call.frames[g].pc \in {"store", "return", "done"}}}
    \cup {[t |-> t, sf |-> fieldCache[t]] : t \in DOMAIN fieldCache}

\* C20: whatever the interleaving, every descriptor in the cache or held by
\* a call after Load or the build is one the builder returns for the type,
\* complete; two descriptors observed for one type have the same mapping
\* and the same conflict marker; and a call on a type whose descriptor has
\* the conflict marker set returns the conflict error and no descriptor,
\* whether Load found the descriptor or the call built it, and a call on
\* any other type returns the descriptor it observed and no error.
C20_ConcurrentFirstUseIsSafe ==
    /\ \A x \in Observed : x.sf \in buildStructFields(x.t)
    /\ \A x, y \in Observed :
          x.t = y.t => x.sf.fields = y.sf.fields /\ x.sf.conflict = y.sf.conflict
    /\ \A g \in Procs :
          call.frames[g].pc = "done" =>
             \A sf \in buildStructFields(call.frames[g].t) :
                IF sf.conflict # <<>>
                THEN /\ call.frames[g].ret.err = newFieldConflictError(sf.conflict)
                     /\ call.frames[g].ret.sf = "nil"
                ELSE /\ call.frames[g].ret.err = NoError
                     /\ call.frames[g].ret.sf = call.frames[g].sf

\* Two goroutines both missed the descriptor of one type, both built it,
\* with the names in different orders, both stored it and have returned.
C20_Witness ==
    /\ call.frames[1].pc = "done" /\ call.frames[2].pc = "done"
    /\ call.frames[1].path = "miss" /\ call.frames[2].path = "miss"
    /\ call.frames[1].t = call.frames[2].t
    /\ call.frames[1].sf.allNames # call.frames[2].sf.allNames
    /\ fieldCache[call.frames[1].t] = call.frames[2].sf

\* A conflicted type answered with the conflict to a goroutine that built
\* the descriptor and to one that found it in the cache.
C20_WitnessConflict ==
    /\ call.frames[1].pc = "done" /\ call.frames[2].pc = "done"
    /\ call.frames[1].path = "miss" /\ call.frames[2].path = "hit"
    /\ call.frames[1].t = Named("Conflict") /\ call.frames[2].t = Named("Conflict")
    /\ call.frames[1].ret.err = newFieldConflictError(kName)
    /\ call.frames[2].ret.err = newFieldConflictError(kName)

====
